---- MODULE Spec2Model ----
(***************************************************************************)
(* A model of the popup Menu of molecular_dynamics_toy/widgets/base.py:    *)
(* its rectangle, its close button, its items, its visibility flag and     *)
(* the handlers that change them.  Rectangles follow pygame.Rect: integer  *)
(* x, y, w, h, with half-open hit tests.                                    *)
(***************************************************************************)
EXTENDS Integers, Sequences, FiniteSets, TLC

(***************************************************************************)
(* Bounds of the model.                                                    *)
(***************************************************************************)
MaxItems == 2

\* The most clicks made on one stand-alone control.
MaxClicks == 6

\* The highest speed the controls widget is driven to.
MaxSpeed == 2

\* The bits in the significand of a float.  Python's float has 53; the
\* model rounds the same way (to nearest, ties to even) with fewer bits.
Precision == 10

(***************************************************************************)
(* Layout constants of Menu.__init__.                                      *)
(***************************************************************************)
title_height == 40
item_height == 35
item_spacing == 5
margin == 15
close_size == 30
close_inset == 10

(***************************************************************************)
(* Event vocabulary (pygame event types and mouse buttons).                *)
(***************************************************************************)
MOUSEBUTTONDOWN == "MOUSEBUTTONDOWN"
MOUSEBUTTONUP == "MOUSEBUTTONUP"
MOUSEMOTION == "MOUSEMOTION"

(***************************************************************************)
(* Inputs: the rectangles a Menu is constructed with, the arguments of     *)
(* set_position and center, and the pointer positions of events.           *)
(***************************************************************************)
InitRects ==
    { [x |-> 0, y |-> 0, w |-> 80, h |-> 120],
      [x |-> 10, y |-> 20, w |-> 81, h |-> 121] }

PositionArgs == { <<0, 0>>, <<30, -10>> }

\* The last container is smaller than every menu.
ContainerSizes == { <<200, 300>>, <<201, 301>>, <<40, 61>> }

\* Pointer positions: on the close button, on the corner of the first item,
\* just right of it, on the second item inside and below the menu, on the
\* menu's right edge, and far from the menu (for a menu at the origin).
Probes ==
    { <<50, 20>>, <<15, 55>>, <<65, 60>>, <<30, 100>>, <<30, 125>>,
      <<80, 5>>, <<150, 250>> }

\* Positions of the events the menu does not look at the position of.
OtherProbes == { <<15, 55>>, <<150, 250>> }

Events ==
    { [type |-> t, button |-> 0, pos |-> p] :
          t \in {MOUSEMOTION}, p \in Probes }
    \cup
    { [type |-> MOUSEBUTTONDOWN, button |-> 1, pos |-> p] : p \in Probes }
    \cup
    { [type |-> MOUSEBUTTONDOWN, button |-> 3, pos |-> p] : p \in OtherProbes }
    \cup
    { [type |-> MOUSEBUTTONUP, button |-> 1, pos |-> p] : p \in OtherProbes }

NoArgs == <<>>

(***************************************************************************)
(* pygame.Rect operations used by the widgets.                             *)
(***************************************************************************)
Rect(x, y, w, h) == [x |-> x, y |-> y, w |-> w, h |-> h]

collidepoint(r, pos) ==
    /\ pos[1] >= r.x
    /\ pos[1] < r.x + r.w
    /\ pos[2] >= r.y
    /\ pos[2] < r.y + r.h

move_ip(r, dx, dy) == [r EXCEPT !.x = r.x + dx, !.y = r.y + dy]

centerx(r) == r.x + (r.w \div 2)

centery(r) == r.y + (r.h \div 2)

(***************************************************************************)
(* Callbacks.  A callback is None or caller code identified by a number;   *)
(* add_item may wrap it so that the menu closes after it has run.  Running *)
(* a callback yields the sequence of effects it has, in order.             *)
(***************************************************************************)
None == [orig |-> 0, wrapped |-> FALSE]

UserCallback(id) == [orig |-> id, wrapped |-> FALSE]

CallEffect(id) == <<"callback", id>>

CloseEffect == <<"close", 0>>

OpenEffect == <<"open", 0>>

\* A run of Button.on_click, the hook handle_click calls before the callback.
OnClickEffect == <<"on_click", 0>>

RunCallback(cb) ==
    IF cb.wrapped
        THEN <<CallEffect(cb.orig), CloseEffect>>
        ELSE <<CallEffect(cb.orig)>>

(***************************************************************************)
(* Button: rect, hovered, enabled, callback.                               *)
(***************************************************************************)
Button(r, cb, en) ==
    [rect |-> r, hovered |-> FALSE, enabled |-> en, callback |-> cb]

\* Button.on_click does nothing in the base class; the run itself is recorded.
Button_on_click(b) == <<OnClickEffect>>

\* A slip of handle_click: the enabled flag is not looked at.
Button_handle_click_when_disabled(b, pos) ==
    IF collidepoint(b.rect, pos)
        THEN [hit |-> TRUE,
              effects |-> Button_on_click(b) \o
                          (IF b.callback # None
                               THEN RunCallback(b.callback)
                               ELSE <<>>)]
        ELSE [hit |-> FALSE, effects |-> <<>>]

\* The value handle_click returns, and the effects of the call.
Button_handle_click(b, pos) ==
    IF ~b.enabled
        THEN [hit |-> FALSE, effects |-> <<>>]
    ELSE IF collidepoint(b.rect, pos)
        THEN [hit |-> TRUE,
              effects |-> Button_on_click(b) \o
                          (IF b.callback # None
                               THEN RunCallback(b.callback)
                               ELSE <<>>)]
    ELSE [hit |-> FALSE, effects |-> <<>>]

\* A slip of handle_hover: the flag is set on entry and never cleared.
Button_handle_hover_sticky(b, pos) ==
    [b EXCEPT !.hovered = b.hovered \/ (collidepoint(b.rect, pos) /\ b.enabled)]

Button_handle_hover(b, pos) ==
    [b EXCEPT !.hovered = collidepoint(b.rect, pos) /\ b.enabled]

MenuItem(r, cb) == Button(r, cb, TRUE)

(***************************************************************************)
(* PlayPauseButton (controls.py): rect, playing, hovered.                  *)
(***************************************************************************)
PlayPauseButton(r) == [rect |-> r, playing |-> FALSE, hovered |-> FALSE]

\* A slip of handle_click: a one-way switch instead of a toggle.
PlayPauseButton_handle_click_one_way(b, pos) ==
    IF collidepoint(b.rect, pos)
        THEN [hit |-> TRUE, button |-> [b EXCEPT !.playing = TRUE]]
        ELSE [hit |-> FALSE, button |-> b]

\* The value handle_click returns, and the button it leaves.
PlayPauseButton_handle_click(b, pos) ==
    IF collidepoint(b.rect, pos)
        THEN [hit |-> TRUE, button |-> [b EXCEPT !.playing = ~b.playing]]
        ELSE [hit |-> FALSE, button |-> b]

PlayPauseButton_handle_hover(b, pos) ==
    [b EXCEPT !.hovered = collidepoint(b.rect, pos)]

CloseButton(r) == Button(r, None, TRUE)

(***************************************************************************)
(* SpeedControl (controls.py): rect, speed, the rectangles of the decrease *)
(* button, the text and the increase button, and the two hover flags.      *)
(***************************************************************************)
default_speed == 1

Max(a, b) == IF a >= b THEN a ELSE b

Min(a, b) == IF a <= b THEN a ELSE b

SpeedControl(r, initial_speed) ==
    LET button_width == r.h
        text_width == r.w - 2 * button_width
    IN  [rect |-> r,
         speed |-> Max(1, initial_speed),
         decrease_button_rect |-> Rect(r.x, r.y, button_width, r.h),
         text_rect |-> Rect(r.x + button_width, r.y, text_width, r.h),
         increase_button_rect |->
             Rect(r.x + r.w - button_width, r.y, button_width, r.h),
         decrease_hovered |-> FALSE,
         increase_hovered |-> FALSE]

\* A slip of handle_click: the decrease button has no floor.
SpeedControl_handle_click_no_floor(c, pos) ==
    IF collidepoint(c.decrease_button_rect, pos)
        THEN [hit |-> TRUE, control |-> [c EXCEPT !.speed = c.speed - 1]]
    ELSE IF collidepoint(c.increase_button_rect, pos)
        THEN [hit |-> TRUE, control |-> [c EXCEPT !.speed = c.speed + 1]]
    ELSE [hit |-> FALSE, control |-> c]

\* Another: the increase button stops at a ceiling of five steps per frame.
SpeedControl_handle_click_ceiling(c, pos) ==
    IF collidepoint(c.decrease_button_rect, pos)
        THEN [hit |-> TRUE,
              control |-> [c EXCEPT !.speed = Max(1, c.speed - 1)]]
    ELSE IF collidepoint(c.increase_button_rect, pos)
        THEN [hit |-> TRUE,
              control |-> [c EXCEPT !.speed = Min(5, c.speed + 1)]]
    ELSE [hit |-> FALSE, control |-> c]

\* The value handle_click returns, and the control it leaves.
SpeedControl_handle_click(c, pos) ==
    IF collidepoint(c.decrease_button_rect, pos)
        THEN [hit |-> TRUE,
              control |-> [c EXCEPT !.speed = Max(1, c.speed - 1)]]
    ELSE IF collidepoint(c.increase_button_rect, pos)
        THEN [hit |-> TRUE, control |-> [c EXCEPT !.speed = c.speed + 1]]
    ELSE [hit |-> FALSE, control |-> c]

SpeedControl_handle_hover(c, pos) ==
    [c EXCEPT !.decrease_hovered = collidepoint(c.decrease_button_rect, pos),
              !.increase_hovered = collidepoint(c.increase_button_rect, pos)]

(***************************************************************************)
(* Floats.  A float is written as the integer k that stands for            *)
(* k / 2^FracBits; it has at most Precision significant bits, and every    *)
(* operation returns the float nearest to the exact result, a tie going to *)
(* the even significand.  2^-FracBits is the smallest positive float.      *)
(***************************************************************************)
FracBits == Precision + 6

Abs(k) == IF k < 0 THEN -k ELSE k

Sign(k) == IF k < 0 THEN -1 ELSE 1

\* The integer nearest to a / d (a >= 0, d > 0), ties to even.
RoundHalfEven(a, d) ==
    LET q == a \div d
        r == a % d
    IN  IF 2 * r < d THEN q
        ELSE IF 2 * r > d THEN q + 1
        ELSE q + (q % 2)

\* a / (den * 2^e) < 2^Precision
Fits(a, den, e) == a \div (2 ^ (Precision + e)) < den

\* The least e >= from with Fits(a, den, e), searched four at a time.
RECURSIVE Exponent(_, _, _)
Exponent(a, den, from) ==
    IF Fits(a, den, from) THEN from
    ELSE IF Fits(a, den, from + 3) THEN Exponent(a, den, from + 1)
    ELSE Exponent(a, den, from + 4)

\* The float nearest to num / den (den > 0), both counted in 2^-FracBits.
RoundRatio(num, den) ==
    LET a == Abs(num)
        e == Exponent(a, den, 0)
    IN  Sign(num) * RoundHalfEven(a, den * (2 ^ e)) * (2 ^ e)

\* For a float k >= 0: an e with k = m * 2^e for an integer m < 2^Precision.
Scale(k) == Exponent(k, 1, 0)

\* float(i) for an int i; exact when i has at most Precision bits
Float(i) ==
    IF Abs(i) < 2 ^ Precision
        THEN i * (2 ^ FracBits)
        ELSE RoundRatio(i * (2 ^ FracBits), 1)

\* int(x): truncation towards zero, as pygame.Rect does to a float argument
Truncate(x) == Sign(x) * (Abs(x) \div (2 ^ FracBits))

FAdd(x, y) == RoundRatio(x + y, 1)

FSub(x, y) == RoundRatio(x - y, 1)

FMul(x, y) ==
    IF x = 0 \/ y = 0
        THEN 0
        ELSE LET tx == Scale(Abs(x))
                 ty == Scale(Abs(y))
                 mx == Abs(x) \div (2 ^ tx)
                 my == Abs(y) \div (2 ^ ty)
                 shift == tx + ty - FracBits
             IN  Sign(x) * Sign(y) *
                 (IF shift >= 0
                      THEN RoundRatio(mx * my * (2 ^ shift), 1)
                      ELSE RoundRatio(mx * my, 2 ^ (-shift)))

\* x / y for floats, y # 0
FDiv(x, y) ==
    IF x = 0
        THEN 0
        ELSE LET tx == Scale(Abs(x))
                 ty == Scale(Abs(y))
                 mx == Abs(x) \div (2 ^ tx)
                 my == Abs(y) \div (2 ^ ty)
                 shift == tx - ty + FracBits
             IN  Sign(x) * Sign(y) *
                 (IF shift >= 0
                      THEN RoundRatio(mx * (2 ^ shift), my)
                      ELSE RoundRatio(mx, my * (2 ^ (-shift))))

\* i / j for ints, j > 0: the float nearest to the quotient
TrueDiv(i, j) == RoundRatio(i * (2 ^ FracBits), j)

(***************************************************************************)
(* TemperatureSlider (controls.py): rect, temperature, min_temp, max_temp, *)
(* dragging, hovered.  The temperatures are floats.                        *)
(***************************************************************************)
label_height == 25
slider_height == 20
slider_width == 15
track_margin == 10

default_temp == 300
default_min_temp == 0
default_max_temp == 1000

TemperatureSlider(r, initial_temp, min_temp, max_temp) ==
    [rect |-> r, temperature |-> initial_temp, min_temp |-> min_temp,
     max_temp |-> max_temp, dragging |-> FALSE, hovered |-> FALSE]

TemperatureSlider_get_track_rect(s) ==
    Rect(s.rect.x + track_margin, s.rect.y + label_height + 10,
         s.rect.w - 2 * track_margin, slider_height)

TemperatureSlider_get_slider_rect(s) ==
    LET track_rect == TemperatureSlider_get_track_rect(s)
        normalized == FDiv(FSub(s.temperature, s.min_temp),
                           FSub(s.max_temp, s.min_temp))
        clamped == Max(Float(0), Min(Float(1), normalized))
        slider_x == FAdd(Float(track_rect.x),
                         FMul(clamped, Float(track_rect.w - slider_width)))
        slider_y == centery(track_rect) - (slider_height \div 2)
    IN  Rect(Truncate(slider_x), slider_y, slider_width, slider_height)

\* A slip of _update_from_position: the position is measured along the
\* slider's rectangle, not along its track.
TemperatureSlider_update_from_position_along_rect(s, x) ==
    LET normalized == TrueDiv(x - s.rect.x, s.rect.w)
        clamped == Max(Float(0), Min(Float(1), normalized))
    IN  [s EXCEPT !.temperature =
             FAdd(s.min_temp, FMul(clamped, FSub(s.max_temp, s.min_temp)))]

TemperatureSlider_update_from_position(s, x) ==
    LET track_rect == TemperatureSlider_get_track_rect(s)
        normalized == TrueDiv(x - track_rect.x, track_rect.w)
        clamped == Max(Float(0), Min(Float(1), normalized))
    IN  [s EXCEPT !.temperature =
             FAdd(s.min_temp, FMul(clamped, FSub(s.max_temp, s.min_temp)))]

\* The value handle_click returns, and the slider it leaves.
TemperatureSlider_handle_click(s, pos) ==
    IF collidepoint(TemperatureSlider_get_slider_rect(s), pos)
        THEN [hit |-> TRUE, slider |-> [s EXCEPT !.dragging = TRUE]]
    ELSE IF collidepoint(TemperatureSlider_get_track_rect(s), pos)
        THEN [hit |-> TRUE,
              slider |-> [TemperatureSlider_update_from_position(s, pos[1])
                              EXCEPT !.dragging = TRUE]]
    ELSE [hit |-> FALSE, slider |-> s]

TemperatureSlider_handle_release(s) == [s EXCEPT !.dragging = FALSE]

\* A slip of handle_drag: the drag flag is not looked at.
TemperatureSlider_handle_drag_always(s, pos) ==
    TemperatureSlider_update_from_position(s, pos[1])

TemperatureSlider_handle_drag(s, pos) ==
    IF s.dragging
        THEN TemperatureSlider_update_from_position(s, pos[1])
        ELSE s

TemperatureSlider_handle_hover(s, pos) ==
    [s EXCEPT !.hovered =
         collidepoint(TemperatureSlider_get_slider_rect(s), pos)]

(***************************************************************************)
(* ResetButton (controls.py): rect, hovered.                               *)
(***************************************************************************)
ResetButton(r) == [rect |-> r, hovered |-> FALSE]

ResetButton_handle_click(b, pos) == collidepoint(b.rect, pos)

ResetButton_handle_hover(b, pos) ==
    [b EXCEPT !.hovered = collidepoint(b.rect, pos)]

(***************************************************************************)
(* ControlsWidget (controls.py), as a record w of its attributes: rect,    *)
(* the four controls and reset_requested.                                  *)
(***************************************************************************)
controls_margin == 20
button_size == 60
spacing == 10
speed_control_width == 200
slider_rect_height == 60

\* A slip of _create_controls: the reset button is put a spacing, not a
\* button and a spacing, to the right of the play/pause button.
ControlsWidget_create_controls_close(r, old_playing, old_speed, old_temp) ==
    LET play_button_rect ==
            Rect(r.x + controls_margin, r.y + controls_margin,
                 button_size, button_size)
        reset_button_rect ==
            Rect(r.x + controls_margin + spacing,
                 r.y + controls_margin, button_size, button_size)
        speed_control_rect ==
            Rect(r.x + controls_margin + 2 * (button_size + spacing),
                 r.y + controls_margin, speed_control_width, button_size)
        slider_top == r.y + controls_margin + button_size + spacing
        slider_rect ==
            Rect(r.x + controls_margin, slider_top,
                 r.w - 2 * controls_margin, slider_rect_height)
    IN  [play_pause_button |->
             [PlayPauseButton(play_button_rect) EXCEPT !.playing = old_playing],
         reset_button |-> ResetButton(reset_button_rect),
         speed_control |-> SpeedControl(speed_control_rect, old_speed),
         temperature_slider |->
             TemperatureSlider(slider_rect, old_temp, Float(default_min_temp),
                               Float(default_max_temp))]

\* The controls _create_controls makes for the rectangle r, given the
\* playing flag, the speed and the temperature it read from the old ones.
ControlsWidget_create_controls(r, old_playing, old_speed, old_temp) ==
    LET play_button_rect ==
            Rect(r.x + controls_margin, r.y + controls_margin,
                 button_size, button_size)
        reset_button_rect ==
            Rect(r.x + controls_margin + button_size + spacing,
                 r.y + controls_margin, button_size, button_size)
        speed_control_rect ==
            Rect(r.x + controls_margin + 2 * (button_size + spacing),
                 r.y + controls_margin, speed_control_width, button_size)
        slider_top == r.y + controls_margin + button_size + spacing
        slider_rect ==
            Rect(r.x + controls_margin, slider_top,
                 r.w - 2 * controls_margin, slider_rect_height)
    IN  [play_pause_button |->
             [PlayPauseButton(play_button_rect) EXCEPT !.playing = old_playing],
         reset_button |-> ResetButton(reset_button_rect),
         speed_control |-> SpeedControl(speed_control_rect, old_speed),
         temperature_slider |->
             TemperatureSlider(slider_rect, old_temp, Float(default_min_temp),
                               Float(default_max_temp))]

ControlsWidget_init(r) ==
    LET made == ControlsWidget_create_controls(
                    r, FALSE, default_speed, Float(default_temp))
    IN  [rect |-> r,
         play_pause_button |-> made.play_pause_button,
         reset_button |-> made.reset_button,
         speed_control |-> made.speed_control,
         temperature_slider |-> made.temperature_slider,
         reset_requested |-> FALSE]

ControlsWidget_playing(w) == w.play_pause_button.playing

ControlsWidget_speed(w) == w.speed_control.speed

ControlsWidget_temperature(w) == w.temperature_slider.temperature

ControlsWidget_press(w, pos) ==
    [w EXCEPT
       !.play_pause_button =
           PlayPauseButton_handle_click(w.play_pause_button, pos).button,
       !.reset_requested =
           IF ResetButton_handle_click(w.reset_button, pos) THEN TRUE ELSE @,
       !.speed_control =
           SpeedControl_handle_click(w.speed_control, pos).control,
       !.temperature_slider =
           TemperatureSlider_handle_click(w.temperature_slider, pos).slider]

ControlsWidget_motion(w, pos) ==
    [w EXCEPT
       !.play_pause_button =
           PlayPauseButton_handle_hover(w.play_pause_button, pos),
       !.reset_button = ResetButton_handle_hover(w.reset_button, pos),
       !.speed_control = SpeedControl_handle_hover(w.speed_control, pos),
       !.temperature_slider =
           TemperatureSlider_handle_drag(
               TemperatureSlider_handle_hover(w.temperature_slider, pos), pos)]

\* A slip of handle_event: the flag follows the last press, so that a press
\* away from the reset button clears it.
ControlsWidget_handle_event_last_press(w, ev) ==
    IF ev.type = MOUSEBUTTONDOWN /\ ev.button = 1
        THEN [ControlsWidget_press(w, ev.pos) EXCEPT
                 !.reset_requested =
                     ResetButton_handle_click(w.reset_button, ev.pos)]
    ELSE IF ev.type = MOUSEBUTTONUP /\ ev.button = 1
        THEN [w EXCEPT !.temperature_slider =
                           TemperatureSlider_handle_release(@)]
    ELSE IF ev.type = MOUSEMOTION
        THEN ControlsWidget_motion(w, ev.pos)
    ELSE w

ControlsWidget_handle_event(w, ev) ==
    IF ev.type = MOUSEBUTTONDOWN
        THEN IF ev.button = 1 THEN ControlsWidget_press(w, ev.pos) ELSE w
    ELSE IF ev.type = MOUSEBUTTONUP
        THEN IF ev.button = 1
                 THEN [w EXCEPT !.temperature_slider =
                                    TemperatureSlider_handle_release(@)]
                 ELSE w
    ELSE IF ev.type = MOUSEMOTION
        THEN ControlsWidget_motion(w, ev.pos)
    ELSE w

\* ControlsWidget.update is "pass".
ControlsWidget_update(w) == w

\* A slip of set_rect: the new slider takes over the old one's drag flag.
ControlsWidget_set_rect_keeps_drag(w, r) ==
    LET made == ControlsWidget_create_controls(
                    r, ControlsWidget_playing(w), ControlsWidget_speed(w),
                    ControlsWidget_temperature(w))
    IN  [w EXCEPT !.rect = r,
                  !.play_pause_button = made.play_pause_button,
                  !.reset_button = made.reset_button,
                  !.speed_control = made.speed_control,
                  !.temperature_slider =
                      [made.temperature_slider EXCEPT
                           !.dragging = w.temperature_slider.dragging]]

\* A slip of set_rect: the controls are made afresh, with their defaults.
ControlsWidget_set_rect_afresh(w, r) ==
    [ControlsWidget_init(r) EXCEPT !.reset_requested = w.reset_requested]

ControlsWidget_set_rect(w, r) ==
    LET made == ControlsWidget_create_controls(
                    r, ControlsWidget_playing(w), ControlsWidget_speed(w),
                    ControlsWidget_temperature(w))
    IN  [w EXCEPT !.rect = r,
                  !.play_pause_button = made.play_pause_button,
                  !.reset_button = made.reset_button,
                  !.speed_control = made.speed_control,
                  !.temperature_slider = made.temperature_slider]

(***************************************************************************)
(* MDApplication.update (app.py), as far as it touches the controls        *)
(* widget w and the simulation widget.  Reading an attribute or calling a  *)
(* method its class does not define raises AttributeError, which ends the  *)
(* update.                                                                 *)
(***************************************************************************)
\* The methods and attributes of SimulationWidget (simulation.py).
SimulationWidget_names ==
    { "BG_COLOR", "CELL_COLOR", "rect", "engine", "calculator", "radius_type",
      "atom_radii", "scale", "selected_element", "_create_engine", "update",
      "render", "_get_cell_rect", "_render_atoms", "handle_event",
      "set_rect" }

\* The methods and attributes of ControlsWidget (controls.py).
ControlsWidget_names ==
    { "BG_COLOR", "rect", "play_pause_button", "reset_button",
      "speed_control", "temperature_slider", "reset_requested",
      "_create_controls", "playing", "speed", "temperature", "handle_event",
      "update", "render", "set_rect" }

ResetEffect == <<"simulation_widget.reset", 0>>

TemperatureEffect(t) == <<"engine.temperature", t>>

TimestepEffect == <<"engine.timestep", 0>>

UpdateEffect == <<"simulation_widget.update", 0>>

\* The widget update leaves, the calls and assignments it made on the
\* simulation widget, in order, and whether it raised.
MDApplication_update(w) ==
    LET reset_block ==
            IF ~w.reset_requested
                THEN [widget |-> w, effects |-> <<>>, raised |-> FALSE]
            ELSE IF "reset" \notin SimulationWidget_names
                THEN [widget |-> w, effects |-> <<>>, raised |-> TRUE]
            ELSE [widget |-> [w EXCEPT !.reset_requested = FALSE],
                  effects |-> <<ResetEffect>>, raised |-> FALSE]
        parameters ==
            IF reset_block.raised
                THEN reset_block
            ELSE IF "timestep" \notin ControlsWidget_names
                THEN [reset_block EXCEPT
                         !.effects = Append(@, TemperatureEffect(
                                        ControlsWidget_temperature(w))),
                         !.raised = TRUE]
            ELSE [reset_block EXCEPT
                     !.effects = @ \o <<TemperatureEffect(
                                           ControlsWidget_temperature(w)),
                                       TimestepEffect>>]
    IN  IF parameters.raised
            THEN parameters
        ELSE IF "steps_per_frame" \notin ControlsWidget_names
            THEN [parameters EXCEPT !.raised = TRUE]
        ELSE [parameters EXCEPT !.effects = Append(@, UpdateEffect)]

(***************************************************************************)
(* Python numbers, as far as _update_layout (app.py) uses them: an int is  *)
(* exact, a float is a float of the model, and pygame.Rect converts a      *)
(* float argument to an int by truncation.                                 *)
(***************************************************************************)
PyInt(i) == [is_float |-> FALSE, v |-> i]

PyFloat(x) == [is_float |-> TRUE, v |-> x]

\* float(n)
AsFloat(n) == IF n.is_float THEN n.v ELSE Float(n.v)

\* The value of n in units of 2^-FracBits; comparisons are made on it.
Exact(n) == IF n.is_float THEN n.v ELSE n.v * (2 ^ FracBits)

\* a + b: int arithmetic between ints, float arithmetic otherwise
PyAdd(a, b) ==
    IF a.is_float \/ b.is_float
        THEN PyFloat(FAdd(AsFloat(a), AsFloat(b)))
        ELSE PyInt(a.v + b.v)

\* a - b
PySub(a, b) ==
    IF a.is_float \/ b.is_float
        THEN PyFloat(FSub(AsFloat(a), AsFloat(b)))
        ELSE PyInt(a.v - b.v)

\* a / b for ints a and b: always a float
PyTrueDiv(a, b) == PyFloat(TrueDiv(a.v, b.v))

\* min(a, b): the first argument unless the second is smaller
PyMin(a, b) == IF Exact(b) < Exact(a) THEN b ELSE a

\* The int pygame.Rect stores for the argument n.
ToInt(n) == IF n.is_float THEN Truncate(n.v) ELSE n.v

\* pygame.Rect(x, y, w, h) for Python numbers
PyRect(x, y, w, h) == Rect(ToInt(x), ToInt(y), ToInt(w), ToInt(h))

(***************************************************************************)
(* MDEngine (engine.py): the calculator, the target temperature, the       *)
(* timestep, the atomic system and, as a count, the integration steps run  *)
(* since construction.  Lengths are in units of 0.001 Angstrom.  An atomic *)
(* system carries the calculator bound to it (calc), NoCalculator if none. *)
(***************************************************************************)
NoCalculator == "None"

AtomicSystem(symbols, positions, cell, pbc, calc) ==
    [symbols |-> symbols, positions |-> positions, cell |-> cell,
     pbc |-> pbc, calc |-> calc]

\* The constructor: an empty periodic system in a cubic cell of edge
\* cell_size, with the engine's calculator bound to it.
MDEngine(calculator, timestep, temperature, cell_size) ==
    [calculator |-> calculator,
     timestep |-> timestep,
     temperature |-> temperature,
     cell_size |-> cell_size,
     steps |-> 0,
     atoms |-> AtomicSystem(<<>>, <<>>, <<cell_size, cell_size, cell_size>>,
                            <<TRUE, TRUE, TRUE>>, calculator)]

\* add_atom appends one atom; the position is not validated.
MDEngine_add_atom(e, symbol, position) ==
    [e EXCEPT !.atoms.symbols = Append(@, symbol),
              !.atoms.positions = Append(@, position)]

\* A slip of the atoms setter: the new system keeps the calc it came with.
MDEngine_set_atoms_as_given(e, atoms) == [e EXCEPT !.atoms = atoms]

\* The atoms setter replaces the system and binds the calculator to it.
MDEngine_set_atoms(e, atoms) ==
    [e EXCEPT !.atoms = [atoms EXCEPT !.calc = e.calculator]]

\* run advances the system by the steps asked for, or propagates what the
\* calculator raises; with no steps or no atoms it does nothing.
MDEngine_run(e, steps, calculator_raises) ==
    IF steps = 0 \/ e.atoms.symbols = <<>>
        THEN [engine |-> e, raised |-> FALSE]
    ELSE IF calculator_raises
        THEN [engine |-> e, raised |-> TRUE]
    ELSE [engine |-> [e EXCEPT !.steps = @ + steps], raised |-> FALSE]

(***************************************************************************)
(* PeriodicTableWidget (picker.py): its rectangle and the selected         *)
(* element.                                                                *)
(***************************************************************************)
NoElement == "None"

PeriodicTableWidget(r) == [rect |-> r, selected_element |-> NoElement]

PeriodicTableWidget_set_rect(p, r) == [p EXCEPT !.rect = r]

PeriodicTableWidget_handle_event(p, ev) == p

(***************************************************************************)
(* SimulationWidget (simulation.py).                                       *)
(***************************************************************************)
engine_timestep == 1

engine_temperature == 300

\* An attribute no statement has assigned yet.
Unset == "unset"

engine_cell_size == 10000

\* The calculator argument of SimulationWidget, whichever object it is.
calculator == "calculator"

\* SimulationWidget._create_engine: the engine it assigns to self.engine.
SimulationWidget_create_engine ==
    LET cell_size == engine_cell_size
        center == cell_size \div 2
        engine == MDEngine(calculator, Float(engine_timestep),
                           Float(engine_temperature), cell_size)
    IN  MDEngine_add_atom(
            MDEngine_add_atom(engine, "H", <<center - 500, center, center>>),
            "H", <<center + 500, center, center>>)

\* SimulationWidget.__init__
SimulationWidget(r) ==
    [rect |-> r,
     selected_element |-> Unset,
     engine |-> SimulationWidget_create_engine]

RunEffect(steps) == <<"engine.run", steps>>

ErrorLogged == <<"logger.error", 0>>

\* A slip of update: engine.run is called outside any try.
SimulationWidget_update_unguarded(sw, args, calculator_raises) ==
    IF Len(args) # 1
        THEN [widget |-> sw, effects |-> <<>>, raised |-> TRUE]
    ELSE IF args[1]
        THEN LET out == MDEngine_run(sw.engine, 1, calculator_raises)
             IN  [widget |-> [sw EXCEPT !.engine = out.engine],
                  effects |-> <<RunEffect(1)>>,
                  raised |-> out.raised]
    ELSE [widget |-> sw, effects |-> <<>>, raised |-> FALSE]

\* update(self, playing) called with the positional arguments args: the
\* widget it leaves, what it called, and whether the call raised.  A call
\* with other than one argument raises TypeError before the body runs.
SimulationWidget_update(sw, args, calculator_raises) ==
    IF Len(args) # 1
        THEN [widget |-> sw, effects |-> <<>>, raised |-> TRUE]
    ELSE IF args[1]
        THEN LET out == MDEngine_run(sw.engine, 1, calculator_raises)
             IN  [widget |-> [sw EXCEPT !.engine = out.engine],
                  effects |-> IF out.raised
                                  THEN <<RunEffect(1), ErrorLogged>>
                                  ELSE <<RunEffect(1)>>,
                  raised |-> FALSE]
    ELSE [widget |-> sw, effects |-> <<>>, raised |-> FALSE]

\* SimulationWidget.handle_event is "pass".
SimulationWidget_handle_event(sw, ev) == sw

SimulationWidget_set_rect(sw, r) == [sw EXCEPT !.rect = r]

(***************************************************************************)
(* MDApplication (app.py).  An application is a record of its attributes,  *)
(* the three widgets among them.                                           *)
(***************************************************************************)
QUIT == "QUIT"
VIDEORESIZE == "VIDEORESIZE"

WINDOW_WIDTH == 1400
WINDOW_HEIGHT == 800

SIMULATION_RECT == Rect(50, 50, 700, 700)

PERIODIC_TABLE_RECT == Rect(800, 50, 550, 400)

CONTROLS_RECT == Rect(800, 500, 550, 250)

layout_margin == 50

\* A slip of _update_layout: width and height are halved by floor division.
MDApplication_update_layout_floordiv(a) ==
    LET m == layout_margin
        half_width == a.WINDOW_WIDTH \div 2
        half_height == a.WINDOW_HEIGHT \div 2
        sim_size == Min(half_width, a.WINDOW_HEIGHT - 2 * m)
        sim_rect == Rect(m, m, sim_size, sim_size)
        table_rect ==
            Rect(sim_size + 2 * m, m, a.WINDOW_WIDTH - sim_size - 3 * m,
                 half_height)
        ctl_rect ==
            Rect(sim_size + 2 * m, half_height + 2 * m,
                 a.WINDOW_WIDTH - sim_size - 3 * m, half_height - 3 * m)
    IN  [a EXCEPT
           !.SIMULATION_RECT = sim_rect,
           !.PERIODIC_TABLE_RECT = table_rect,
           !.CONTROLS_RECT = ctl_rect,
           !.periodic_table_widget = PeriodicTableWidget_set_rect(@, table_rect),
           !.simulation_widget = SimulationWidget_set_rect(@, sim_rect),
           !.controls_widget = ControlsWidget_set_rect(@, ctl_rect)]

\* A slip of _update_layout: the controls start at half the height, with no
\* margins below the periodic table.
MDApplication_update_layout_no_gap(a) ==
    LET m == PyInt(layout_margin)
        two == PyInt(2)
        width == PyInt(a.WINDOW_WIDTH)
        height == PyInt(a.WINDOW_HEIGHT)
        two_margins == PyInt(2 * layout_margin)
        three_margins == PyInt(3 * layout_margin)
        sim_size == PyMin(PyTrueDiv(width, two), PySub(height, two_margins))
        sim_rect == PyRect(m, m, sim_size, sim_size)
        table_rect ==
            PyRect(PyAdd(sim_size, two_margins), m,
                   PySub(PySub(width, sim_size), three_margins),
                   PyTrueDiv(height, two))
        ctl_rect ==
            PyRect(PyAdd(sim_size, two_margins),
                   PyTrueDiv(height, two),
                   PySub(PySub(width, sim_size), three_margins),
                   PySub(PyTrueDiv(height, two), three_margins))
    IN  [a EXCEPT
           !.SIMULATION_RECT = sim_rect,
           !.PERIODIC_TABLE_RECT = table_rect,
           !.CONTROLS_RECT = ctl_rect,
           !.periodic_table_widget = PeriodicTableWidget_set_rect(@, table_rect),
           !.simulation_widget = SimulationWidget_set_rect(@, sim_rect),
           !.controls_widget = ControlsWidget_set_rect(@, ctl_rect)]

MDApplication_update_layout(a) ==
    LET m == PyInt(layout_margin)
        two == PyInt(2)
        width == PyInt(a.WINDOW_WIDTH)
        height == PyInt(a.WINDOW_HEIGHT)
        two_margins == PyInt(2 * layout_margin)
        three_margins == PyInt(3 * layout_margin)
        sim_size == PyMin(PyTrueDiv(width, two), PySub(height, two_margins))
        sim_rect == PyRect(m, m, sim_size, sim_size)
        table_rect ==
            PyRect(PyAdd(sim_size, two_margins), m,
                   PySub(PySub(width, sim_size), three_margins),
                   PyTrueDiv(height, two))
        ctl_rect ==
            PyRect(PyAdd(sim_size, two_margins),
                   PyAdd(PyTrueDiv(height, two), two_margins),
                   PySub(PySub(width, sim_size), three_margins),
                   PySub(PyTrueDiv(height, two), three_margins))
    IN  [a EXCEPT
           !.SIMULATION_RECT = sim_rect,
           !.PERIODIC_TABLE_RECT = table_rect,
           !.CONTROLS_RECT = ctl_rect,
           !.periodic_table_widget = PeriodicTableWidget_set_rect(@, table_rect),
           !.simulation_widget = SimulationWidget_set_rect(@, sim_rect),
           !.controls_widget = ControlsWidget_set_rect(@, ctl_rect)]

MDApplication_init ==
    MDApplication_update_layout(
        [WINDOW_WIDTH |-> WINDOW_WIDTH,
         WINDOW_HEIGHT |-> WINDOW_HEIGHT,
         SIMULATION_RECT |-> SIMULATION_RECT,
         PERIODIC_TABLE_RECT |-> PERIODIC_TABLE_RECT,
         CONTROLS_RECT |-> CONTROLS_RECT,
         running |-> FALSE,
         simulation_widget |-> SimulationWidget(SIMULATION_RECT),
         periodic_table_widget |-> PeriodicTableWidget(PERIODIC_TABLE_RECT),
         controls_widget |-> ControlsWidget_init(CONTROLS_RECT)])

\* One call of a widget's handle_event: the widget, the event, and the
\* rectangle the widget had when it was called (for the periodic table
\* widget, the rectangle its set_rect was last called with).
Forwarded(name, ev, r) == <<name, ev, r>>

\* A slip of handle_events: the widgets are offered an event only when the
\* application has not dealt with it itself.
MDApplication_handle_event_else(a, ev) ==
    IF ev.type = QUIT
        THEN [app |-> [a EXCEPT !.running = FALSE], effects |-> <<>>]
    ELSE IF ev.type = VIDEORESIZE
        THEN [app |-> MDApplication_update_layout(
                          [a EXCEPT !.WINDOW_WIDTH = ev.w,
                                    !.WINDOW_HEIGHT = ev.h]),
              effects |-> <<>>]
    ELSE [app |->
              [a EXCEPT
                 !.simulation_widget = SimulationWidget_handle_event(@, ev),
                 !.periodic_table_widget =
                     PeriodicTableWidget_handle_event(@, ev),
                 !.controls_widget = ControlsWidget_handle_event(@, ev)],
          effects |->
              << Forwarded("simulation_widget", ev, a.simulation_widget.rect),
                 Forwarded("periodic_table_widget", ev,
                           a.PERIODIC_TABLE_RECT),
                 Forwarded("controls_widget", ev, a.controls_widget.rect) >>]

\* The body of the loop of handle_events for the event ev.
MDApplication_handle_event(a, ev) ==
    LET seen ==
            IF ev.type = QUIT
                THEN [a EXCEPT !.running = FALSE]
            ELSE IF ev.type = VIDEORESIZE
                THEN MDApplication_update_layout(
                         [a EXCEPT !.WINDOW_WIDTH = ev.w,
                                   !.WINDOW_HEIGHT = ev.h])
            ELSE a
    IN  [app |->
             [seen EXCEPT
                !.simulation_widget = SimulationWidget_handle_event(@, ev),
                !.periodic_table_widget =
                    PeriodicTableWidget_handle_event(@, ev),
                !.controls_widget = ControlsWidget_handle_event(@, ev)],
         effects |->
             << Forwarded("simulation_widget", ev,
                          seen.simulation_widget.rect),
                Forwarded("periodic_table_widget", ev,
                          seen.PERIODIC_TABLE_RECT),
                Forwarded("controls_widget", ev,
                          seen.controls_widget.rect) >>]

\* The temperature an update leaves in the engine.
RECURSIVE EngineAfter(_, _)
EngineAfter(e, effects) ==
    IF effects = <<>>
        THEN e
    ELSE IF Head(effects)[1] = "engine.temperature"
        THEN EngineAfter([e EXCEPT !.temperature = Head(effects)[2]],
                         Tail(effects))
    ELSE EngineAfter(e, Tail(effects))

\* MDApplication.update on the whole application: the application it
\* leaves, what it did to the simulation widget, and whether it raised.
MDApplication_update_widgets(a) ==
    LET out == MDApplication_update(a.controls_widget)
    IN  [app |->
             [a EXCEPT
                !.simulation_widget =
                    [@ EXCEPT
                       !.selected_element =
                           a.periodic_table_widget.selected_element,
                       !.engine = EngineAfter(@, out.effects)],
                !.controls_widget = out.widget],
         effects |-> out.effects,
         raised |-> out.raised]

(***************************************************************************)
(* The state of one Menu, and what the last operation on it was given and  *)
(* what it returned.                                                       *)
(***************************************************************************)
VARIABLES
    rect,                   \* Menu.rect
    visible,                \* Menu.visible
    show_close_button,      \* Menu.show_close_button
    close_on_outside_click, \* Menu.close_on_outside_click
    auto_close_on_select,   \* Menu.auto_close_on_select
    close_button,           \* Menu.close_button: <<>> (None) or <<button>>
    items,                  \* Menu.items
    op,                     \* the operation last called on the menu
    arg,                    \* the argument it was called with
    ret,                    \* what handle_event returned
    trace,                  \* callbacks, open() and close() it ran, in order
    visibleBefore,          \* Menu.visible when the last operation started
    button,                 \* a Button used on its own
    play_pause_button,      \* a PlayPauseButton
    speed_control,          \* a SpeedControl
    temperature_slider,     \* a TemperatureSlider
    reset_button,           \* a ResetButton
    controls_rect,          \* ControlsWidget.rect
    reset_requested,        \* ControlsWidget.reset_requested
    before,                 \* the control when the last operation started
    init_args,              \* the arguments the control was constructed with
    history,                \* the positions handle_click was called with
    app,                    \* the MDApplication's attributes
    simulation_widget,      \* MDApplication.simulation_widget
    periodic_table_widget,  \* MDApplication.periodic_table_widget
    pc,                     \* where MDApplication.run is in its loop
    PRESETS,                \* the registry of data/presets.py
    load_callback,          \* PresetsMenu.load_callback
    exit_callback,          \* MainMenu.exit_callback
    about_textbox,          \* MainMenu.about_textbox
    copyright_textbox,      \* MainMenu.copyright_textbox
    calls                   \* calls the last operation made out of the module

menuVars ==
    <<rect, visible, show_close_button, close_on_outside_click,
      auto_close_on_select, close_button, items, visibleBefore>>

\* The widgets that are used without a menu.
widgetVars ==
    <<button, play_pause_button, reset_button, speed_control,
      temperature_slider, controls_rect, reset_requested, before, init_args,
      history>>

\* The widget objects besides the one a specification is about.
besidesButton ==
    <<play_pause_button, reset_button, speed_control, temperature_slider,
      controls_rect, reset_requested, before>>

besidesPlayPause ==
    <<button, reset_button, speed_control, temperature_slider, controls_rect,
      reset_requested, before>>

besidesSpeed ==
    <<button, play_pause_button, reset_button, temperature_slider,
      controls_rect, reset_requested, before>>

besidesSlider ==
    <<button, play_pause_button, reset_button, speed_control, controls_rect,
      reset_requested>>

\* The application shell and its simulation and periodic table widgets.
appVars == <<app, simulation_widget, periodic_table_widget, pc>>

\* The preset registry and what PresetsMenu and MainMenu add to a Menu.
catalogVars ==
    <<PRESETS, load_callback, exit_callback, about_textbox, copyright_textbox,
      calls>>

besidesWidgets == <<appVars, catalogVars>>

vars == <<menuVars, widgetVars, appVars, catalogVars, op, arg, ret, trace>>

\* The value of a variable whose object a specification does not construct.
NotConstructed == "not constructed"

NoButton == button = NotConstructed

NoPlayPauseButton == play_pause_button = NotConstructed

NoSpeedControl == speed_control = NotConstructed

NoTemperatureSlider == temperature_slider = NotConstructed

NoControlsWidget ==
    /\ reset_button = NotConstructed
    /\ controls_rect = NotConstructed
    /\ reset_requested = NotConstructed

NoBefore == before = NotConstructed

NoHistory == history = NotConstructed /\ init_args = NotConstructed

NoWidgets ==
    /\ NoButton
    /\ NoPlayPauseButton
    /\ NoSpeedControl
    /\ NoTemperatureSlider
    /\ NoControlsWidget
    /\ NoBefore
    /\ NoHistory

NoApp ==
    /\ app = NotConstructed
    /\ simulation_widget = NotConstructed
    /\ periodic_table_widget = NotConstructed
    /\ pc = NotConstructed

NoCatalog ==
    /\ PRESETS = NotConstructed
    /\ load_callback = NotConstructed
    /\ exit_callback = NotConstructed
    /\ about_textbox = NotConstructed
    /\ copyright_textbox = NotConstructed
    /\ calls = NotConstructed

NoMenu ==
    /\ rect = NotConstructed
    /\ visible = NotConstructed
    /\ show_close_button = NotConstructed
    /\ close_on_outside_click = NotConstructed
    /\ auto_close_on_select = NotConstructed
    /\ close_button = NotConstructed
    /\ items = NotConstructed
    /\ visibleBefore = NotConstructed

config == <<show_close_button, close_on_outside_click, auto_close_on_select>>

NoCloseButton == <<>>

\* Menu.open and Menu.close, as a sequence of effects on the visibility flag.
RECURSIVE ApplyEffects(_, _)
ApplyEffects(v, effects) ==
    IF effects = <<>>
        THEN v
    ELSE IF Head(effects) = CloseEffect
        THEN ApplyEffects(FALSE, Tail(effects))
    ELSE IF Head(effects) = OpenEffect
        THEN ApplyEffects(TRUE, Tail(effects))
    ELSE ApplyEffects(v, Tail(effects))

\* The close button Menu.__init__ makes for a menu at r, or None.
Menu_init_close_button(r, show_close) ==
    IF show_close
        THEN << CloseButton(Rect(r.x + r.w - close_size - close_inset,
                                 r.y + close_inset,
                                 close_size, close_size)) >>
        ELSE NoCloseButton

\* Menu.__init__ but for the item list.
Menu_init_attributes(r, show_close, close_outside, auto_close) ==
    /\ rect = r
    /\ visible = FALSE
    /\ show_close_button = show_close
    /\ close_on_outside_click = close_outside
    /\ auto_close_on_select = auto_close
    /\ close_button = Menu_init_close_button(r, show_close)

Menu_init(r, show_close, close_outside, auto_close) ==
    /\ Menu_init_attributes(r, show_close, close_outside, auto_close)
    /\ items = <<>>

Init ==
    /\ \E r \in InitRects, sc \in BOOLEAN, co \in BOOLEAN, ac \in BOOLEAN :
           Menu_init(r, sc, co, ac)
    /\ NoWidgets
    /\ NoApp
    /\ NoCatalog
    /\ op = "init"
    /\ arg = NoArgs
    /\ ret = FALSE
    /\ trace = <<>>
    /\ visibleBefore = FALSE

\* What an operation other than handle_event records about the call.
Called(name, args, effects) ==
    /\ op' = name
    /\ arg' = args
    /\ ret' = FALSE
    /\ trace' = effects
    /\ visibleBefore' = visible
    /\ UNCHANGED <<widgetVars, besidesWidgets>>

Menu_open_effects == <<OpenEffect>>

Menu_close_effects == <<CloseEffect>>

\* A slip of toggle: it opens the menu whatever its state.
Menu_toggle_always_opens == Menu_open_effects

Menu_toggle_effects == IF visible THEN Menu_close_effects ELSE Menu_open_effects

Menu_open ==
    /\ visible' = ApplyEffects(visible, Menu_open_effects)
    /\ UNCHANGED <<rect, config, close_button, items>>

Menu_close ==
    /\ visible' = ApplyEffects(visible, Menu_close_effects)
    /\ UNCHANGED <<rect, config, close_button, items>>

Menu_toggle ==
    /\ visible' = ApplyEffects(visible, Menu_toggle_effects)
    /\ UNCHANGED <<rect, config, close_button, items>>

MoveButton(b, dx, dy) == [b EXCEPT !.rect = move_ip(b.rect, dx, dy)]

\* A slip of set_position: the items are not moved with the menu.
Menu_set_position_items_left(x, y) ==
    LET dx == x - rect.x
        dy == y - rect.y
    IN  << [rect EXCEPT !.x = x, !.y = y],
           [i \in DOMAIN close_button |-> MoveButton(close_button[i], dx, dy)],
           items >>

\* The rectangles after set_position(x, y): <<rect, close_button, items>>.
Menu_set_position_result(x, y) ==
    LET dx == x - rect.x
        dy == y - rect.y
    IN  << [rect EXCEPT !.x = x, !.y = y],
           [i \in DOMAIN close_button |-> MoveButton(close_button[i], dx, dy)],
           [i \in DOMAIN items |-> MoveButton(items[i], dx, dy)] >>

Menu_set_position(x, y) ==
    /\ rect' = Menu_set_position_result(x, y)[1]
    /\ close_button' = Menu_set_position_result(x, y)[2]
    /\ items' = Menu_set_position_result(x, y)[3]
    /\ UNCHANGED <<visible, config>>

\* A slip of center: each half is rounded down before the subtraction.
Menu_center_target_halves(width, height) ==
    << (width \div 2) - (rect.w \div 2), (height \div 2) - (rect.h \div 2) >>

\* The arguments center(width, height) passes to set_position.
Menu_center_target(width, height) ==
    << (width - rect.w) \div 2, (height - rect.h) \div 2 >>

Menu_center(width, height) ==
    Menu_set_position(Menu_center_target(width, height)[1],
                      Menu_center_target(width, height)[2])

\* The rectangle add_item gives an item added to a menu at r that holds n
\* items already.
Menu_item_rect_at(r, n) ==
    LET items_top == r.y + title_height + margin
        item_y == items_top + n * (item_height + item_spacing)
    IN  Rect(r.x + margin, item_y, r.w - 2 * margin, item_height)

\* The rectangle add_item gives the next item.
Menu_item_rect == Menu_item_rect_at(rect, Len(items))

\* A slip of add_item: with auto-close the wrapper is made whatever the
\* callback is, None included.
Menu_final_callback_wraps_none(callback) ==
    IF auto_close_on_select
        THEN [callback EXCEPT !.wrapped = TRUE]
        ELSE callback

\* A slip of add_item: the callback is stored as given, never wrapped.
Menu_final_callback_unwrapped(callback) == callback

\* The callback add_item stores in the item.
Menu_final_callback(callback) ==
    IF auto_close_on_select /\ callback # None
        THEN [callback EXCEPT !.wrapped = TRUE]
        ELSE callback

Menu_add_item(callback) ==
    /\ items' = Append(items, MenuItem(Menu_item_rect,
                                       Menu_final_callback(callback)))
    /\ UNCHANGED <<rect, visible, config, close_button>>

(***************************************************************************)
(* Menu.handle_event.  Each part yields what handle_event returns          *)
(* (handled), the effects it ran, and the hover flags it leaves.            *)
(***************************************************************************)
Outcome(handled, effects) ==
    [handled |-> handled, effects |-> effects,
     close_button |-> close_button, items |-> items]

\* The first item, in list order, whose handle_click returns true; 0 if none.
FirstItemHit(pos) ==
    LET hits == { i \in DOMAIN items : Button_handle_click(items[i], pos).hit }
    IN  IF hits = {} THEN 0
        ELSE CHOOSE i \in hits : \A j \in hits : i <= j

\* The end of handle_event, reached when no branch returned: "return False".
Menu_fallthrough == Outcome(FALSE, <<>>)

\* A slip of the outside-click branch: handled, but close() is not called.
Menu_press_elsewhere_keeps_open(pos) ==
    IF collidepoint(rect, pos)
        THEN Outcome(TRUE, <<>>)
    ELSE IF close_on_outside_click
        THEN Outcome(TRUE, <<>>)
    ELSE Menu_fallthrough

\* The press hit neither the close button nor an item.
Menu_press_elsewhere(pos) ==
    IF collidepoint(rect, pos)
        THEN Outcome(TRUE, <<>>)
    ELSE IF close_on_outside_click
        THEN Outcome(TRUE, Menu_close_effects)
    ELSE Menu_fallthrough

\* The press was offered to the items, in order, after the close button.
Menu_press_items(pos) ==
    IF FirstItemHit(pos) # 0
        THEN Outcome(TRUE,
                     Button_handle_click(items[FirstItemHit(pos)], pos).effects)
        ELSE Menu_press_elsewhere(pos)

\* A slip of the press branch: the close button is never offered the press.
Menu_primary_press_items_only(pos) == Menu_press_items(pos)

\* A MOUSEBUTTONDOWN event with button 1 while the menu is visible.
Menu_primary_press(pos) ==
    IF /\ close_button # NoCloseButton
       /\ Button_handle_click(close_button[1], pos).hit
        THEN Outcome(TRUE,
                     Button_handle_click(close_button[1], pos).effects
                         \o Menu_close_effects)
        ELSE Menu_press_items(pos)

\* A MOUSEMOTION event while the menu is visible.
Menu_motion(pos) ==
    [ Menu_fallthrough EXCEPT
        !.close_button =
            [i \in DOMAIN close_button |->
                Button_handle_hover(close_button[i], pos)],
        !.items =
            [i \in DOMAIN items |-> Button_handle_hover(items[i], pos)] ]

\* A slip of handle_event: the visibility guard is missing.
Menu_handle_event_always(ev) ==
    IF ev.type = MOUSEBUTTONDOWN
        THEN IF ev.button = 1
                 THEN Menu_primary_press(ev.pos)
                 ELSE Menu_fallthrough
    ELSE IF ev.type = MOUSEMOTION
        THEN Menu_motion(ev.pos)
    ELSE Menu_fallthrough

Menu_handle_event_outcome(ev) ==
    IF ~visible
        THEN Outcome(FALSE, <<>>)
    ELSE IF ev.type = MOUSEBUTTONDOWN
        THEN IF ev.button = 1
                 THEN Menu_primary_press(ev.pos)
                 ELSE Menu_fallthrough
    ELSE IF ev.type = MOUSEMOTION
        THEN Menu_motion(ev.pos)
    ELSE Menu_fallthrough

Menu_handle_event(ev) ==
    LET out == Menu_handle_event_outcome(ev)
    IN  /\ visible' = ApplyEffects(visible, out.effects)
        /\ close_button' = out.close_button
        /\ items' = out.items
        /\ ret' = out.handled
        /\ trace' = SelectSeq(out.effects, LAMBDA e : e # OnClickEffect)
        /\ UNCHANGED <<rect, config>>

(***************************************************************************)
(* The operations a caller may perform on the menu, in any order.          *)
(***************************************************************************)
Open == Menu_open /\ Called("open", NoArgs, Menu_open_effects)

Close == Menu_close /\ Called("close", NoArgs, Menu_close_effects)

Toggle == Menu_toggle /\ Called("toggle", NoArgs, Menu_toggle_effects)

SetPosition ==
    \E p \in PositionArgs :
        Menu_set_position(p[1], p[2]) /\ Called("set_position", p, <<>>)

Center ==
    \E c \in ContainerSizes :
        Menu_center(c[1], c[2]) /\ Called("center", c, <<>>)

AddItem ==
    /\ Len(items) < MaxItems
    /\ \E cb \in {None, UserCallback(Len(items) + 1)} :
           Menu_add_item(cb) /\ Called("add_item", <<cb>>, <<>>)

HandleEvent ==
    \E ev \in Events :
        /\ Menu_handle_event(ev)
        /\ op' = "handle_event"
        /\ arg' = ev
        /\ visibleBefore' = visible
        /\ UNCHANGED <<widgetVars, besidesWidgets>>

Next ==
    \/ Open
    \/ Close
    \/ Toggle
    \/ SetPosition
    \/ Center
    \/ AddItem
    \/ HandleEvent

Spec == Init /\ [][Next]_vars

(***************************************************************************)
(* A Button on its own: constructed with a rectangle, a callback or None   *)
(* and the enabled flag, then clicked and hovered at any position.         *)
(***************************************************************************)
ButtonRects == { Rect(10, 10, 60, 30), Rect(0, 0, 1, 1) }

\* Inside the first rectangle, on each of its edges, and the origin.
ButtonProbes ==
    { <<30, 20>>, <<10, 10>>, <<70, 20>>, <<30, 40>>, <<9, 20>>, <<0, 0>> }

ButtonInit ==
    /\ \E r \in ButtonRects, cb \in {None, UserCallback(1)}, en \in BOOLEAN :
           button = Button(r, cb, en)
    /\ NoMenu
    /\ NoPlayPauseButton
    /\ NoSpeedControl
    /\ NoTemperatureSlider
    /\ NoControlsWidget
    /\ NoBefore
    /\ NoHistory
    /\ NoApp
    /\ NoCatalog
    /\ op = "init"
    /\ arg = NoArgs
    /\ ret = FALSE
    /\ trace = <<>>

ButtonClick ==
    \E pos \in ButtonProbes :
        LET out == Button_handle_click(button, pos)
        IN  /\ op' = "handle_click"
            /\ arg' = pos
            /\ ret' = out.hit
            /\ trace' = out.effects
            /\ UNCHANGED <<besidesWidgets, menuVars, widgetVars>>

ButtonHover ==
    \E pos \in ButtonProbes :
        /\ button' = Button_handle_hover(button, pos)
        /\ op' = "handle_hover"
        /\ arg' = pos
        /\ ret' = FALSE
        /\ trace' = <<>>
        /\ UNCHANGED <<besidesWidgets, menuVars,
                       besidesButton, init_args, history>>

ButtonNext ==
    \/ ButtonClick
    \/ ButtonHover

ButtonSpec == ButtonInit /\ [][ButtonNext]_vars

(***************************************************************************)
(* A PlayPauseButton on its own, clicked and hovered at any position.      *)
(* At most MaxClicks clicks are made on one object.                        *)
(***************************************************************************)
PlayPauseRects == { Rect(10, 10, 60, 60), Rect(0, 0, 30, 30) }

\* Inside both rectangles, inside the first only, on its right edge, outside.
PlayPauseProbes == { <<20, 20>>, <<30, 30>>, <<70, 30>>, <<100, 100>> }

PlayPauseInit ==
    /\ \E r \in PlayPauseRects :
           /\ play_pause_button = PlayPauseButton(r)
           /\ init_args = [rect |-> r]
    /\ history = <<>>
    /\ NoMenu
    /\ NoButton
    /\ NoSpeedControl
    /\ NoTemperatureSlider
    /\ NoControlsWidget
    /\ NoBefore
    /\ NoApp
    /\ NoCatalog
    /\ op = "init"
    /\ arg = NoArgs
    /\ ret = FALSE
    /\ trace = <<>>

PlayPauseClick ==
    /\ Len(history) < MaxClicks
    /\ \E pos \in PlayPauseProbes :
           LET out == PlayPauseButton_handle_click(play_pause_button, pos)
           IN  /\ play_pause_button' = out.button
               /\ history' = Append(history, pos)
               /\ op' = "handle_click"
               /\ arg' = pos
               /\ ret' = out.hit
               /\ trace' = <<>>
               /\ UNCHANGED <<besidesWidgets, menuVars,
                              besidesPlayPause, init_args>>

PlayPauseHover ==
    \E pos \in PlayPauseProbes :
        /\ play_pause_button' =
               PlayPauseButton_handle_hover(play_pause_button, pos)
        /\ op' = "handle_hover"
        /\ arg' = pos
        /\ ret' = FALSE
        /\ trace' = <<>>
        /\ UNCHANGED <<besidesWidgets, menuVars,
                       besidesPlayPause, init_args, history>>

PlayPauseNext ==
    \/ PlayPauseClick
    \/ PlayPauseHover

PlayPauseSpec == PlayPauseInit /\ [][PlayPauseNext]_vars

(***************************************************************************)
(* A SpeedControl on its own.  Its rectangle is at least twice as wide as  *)
(* it is high, so that the two square buttons do not overlap.              *)
(***************************************************************************)
SpeedRects == { Rect(10, 10, 200, 60), Rect(0, 0, 120, 60) }

SpeedInitials == { -3, 0, default_speed, 5 }

\* For the first rectangle: the centres of the decrease button, of the text
\* and of the increase button.  The second has its increase button where
\* the first has its text, and nothing where the first has that button.
SpeedProbes == { <<40, 40>>, <<110, 40>>, <<180, 40>> }

SpeedInit ==
    /\ \E r \in SpeedRects, s \in SpeedInitials :
           /\ speed_control = SpeedControl(r, s)
           /\ init_args = [rect |-> r, initial_speed |-> s]
    /\ history = <<>>
    /\ NoMenu
    /\ NoButton
    /\ NoPlayPauseButton
    /\ NoTemperatureSlider
    /\ NoControlsWidget
    /\ NoBefore
    /\ NoApp
    /\ NoCatalog
    /\ op = "init"
    /\ arg = NoArgs
    /\ ret = FALSE
    /\ trace = <<>>

SpeedClick ==
    /\ Len(history) < MaxClicks
    /\ \E pos \in SpeedProbes :
           LET out == SpeedControl_handle_click(speed_control, pos)
           IN  /\ speed_control' = out.control
               /\ history' = Append(history, pos)
               /\ op' = "handle_click"
               /\ arg' = pos
               /\ ret' = out.hit
               /\ trace' = <<>>
               /\ UNCHANGED <<besidesWidgets, menuVars,
                              besidesSpeed, init_args>>

SpeedHover ==
    \E pos \in SpeedProbes :
        /\ speed_control' = SpeedControl_handle_hover(speed_control, pos)
        /\ op' = "handle_hover"
        /\ arg' = pos
        /\ ret' = FALSE
        /\ trace' = <<>>
        /\ UNCHANGED <<besidesWidgets, menuVars,
                       besidesSpeed, init_args, history>>

SpeedNext ==
    \/ SpeedClick
    \/ SpeedHover

SpeedSpec == SpeedInit /\ [][SpeedNext]_vars

(***************************************************************************)
(* A TemperatureSlider on its own, with min_temp < max_temp, the initial   *)
(* temperature between them and a track of positive width.                 *)
(***************************************************************************)
\* Tracks 100 and 40 wide, from x = 20, with y from 45 to 64.
SliderRects == { Rect(10, 10, 120, 60), Rect(10, 10, 60, 60) }

\* <<min_temp, max_temp>>: the default range and a custom one.
SliderRanges == { <<default_min_temp, default_max_temp>>, <<-273, 1790>> }

\* Far left of the track, on its left edge, one right of it, on the handle
\* at 300 K, further right, the last column and the right edge of either
\* track, far right; and a position above the track.
SliderProbes ==
    { <<-80, 55>>, <<20, 55>>, <<21, 55>>, <<50, 55>>, <<59, 55>>,
      <<60, 55>>, <<95, 55>>, <<119, 55>>, <<120, 55>>, <<220, 55>>,
      <<50, 30>> }

SliderInit ==
    /\ \E r \in SliderRects, range \in SliderRanges :
           /\ temperature_slider =
                  TemperatureSlider(r, Float(default_temp),
                                    Float(range[1]), Float(range[2]))
           /\ init_args = [rect |-> r, initial_temp |-> Float(default_temp),
                           min_temp |-> Float(range[1]),
                           max_temp |-> Float(range[2])]
    /\ before = temperature_slider
    /\ history = <<>>
    /\ NoMenu
    /\ NoButton
    /\ NoPlayPauseButton
    /\ NoSpeedControl
    /\ NoControlsWidget
    /\ NoApp
    /\ NoCatalog
    /\ op = "init"
    /\ arg = NoArgs
    /\ ret = FALSE
    /\ trace = <<>>

SliderCalled(name, args, returned) ==
    /\ op' = name
    /\ arg' = args
    /\ ret' = returned
    /\ trace' = <<>>
    /\ before' = temperature_slider
    /\ UNCHANGED <<besidesWidgets, menuVars,
                   besidesSlider, init_args, history>>

SliderClick ==
    \E pos \in SliderProbes :
        LET out == TemperatureSlider_handle_click(temperature_slider, pos)
        IN  /\ temperature_slider' = out.slider
            /\ SliderCalled("handle_click", pos, out.hit)

SliderRelease ==
    /\ temperature_slider' =
           TemperatureSlider_handle_release(temperature_slider)
    /\ SliderCalled("handle_release", NoArgs, FALSE)

SliderDrag ==
    \E pos \in SliderProbes :
        /\ temperature_slider' =
               TemperatureSlider_handle_drag(temperature_slider, pos)
        /\ SliderCalled("handle_drag", pos, FALSE)

SliderHover ==
    \E pos \in SliderProbes :
        /\ temperature_slider' =
               TemperatureSlider_handle_hover(temperature_slider, pos)
        /\ SliderCalled("handle_hover", pos, FALSE)

SliderNext ==
    \/ SliderClick
    \/ SliderRelease
    \/ SliderDrag
    \/ SliderHover

SliderSpec == SliderInit /\ [][SliderNext]_vars

(***************************************************************************)
(* A ControlsWidget, driven by events, update, set_rect, the application's *)
(* per-frame update and a caller that clears reset_requested.              *)
(***************************************************************************)
ControlsRects == { Rect(0, 0, 500, 250), Rect(0, 0, 600, 300) }

\* The centres of the play/pause button, the reset button, the decrease
\* button and the increase button, and a position on the slider's track.
ControlsProbes ==
    { <<50, 50>>, <<120, 50>>, <<190, 50>>, <<330, 50>>, <<250, 135>> }

ControlsEvents ==
    { [type |-> t, button |-> b, pos |-> p] :
          t \in {MOUSEMOTION}, b \in {0}, p \in ControlsProbes }
    \cup
    { [type |-> MOUSEBUTTONDOWN, button |-> 1, pos |-> p] :
          p \in ControlsProbes }
    \cup
    { [type |-> t, button |-> 3, pos |-> <<120, 50>>] :
          t \in {MOUSEBUTTONDOWN, MOUSEBUTTONUP} }
    \cup
    { [type |-> MOUSEBUTTONUP, button |-> 1, pos |-> <<250, 135>>] }

\* The ControlsWidget the variables hold.
widget ==
    [rect |-> controls_rect,
     play_pause_button |-> play_pause_button,
     reset_button |-> reset_button,
     speed_control |-> speed_control,
     temperature_slider |-> temperature_slider,
     reset_requested |-> reset_requested]

\* The variables hold the ControlsWidget w.
Holds(w) ==
    /\ controls_rect' = w.rect
    /\ play_pause_button' = w.play_pause_button
    /\ reset_button' = w.reset_button
    /\ speed_control' = w.speed_control
    /\ temperature_slider' = w.temperature_slider
    /\ reset_requested' = w.reset_requested

\* Whether the slider s is being dragged.
DragState(s) == IF s.dragging THEN "dragging" ELSE "at rest"

\* A call of the widget; started is what the caller noted of the widget
\* when the call started.
ControlsCalledFrom(name, args, returned, effects, started) ==
    /\ op' = name
    /\ arg' = args
    /\ ret' = returned
    /\ trace' = effects
    /\ before' = started
    /\ UNCHANGED <<besidesWidgets, menuVars, button, init_args, history>>

ControlsCalled(name, args, returned, effects) ==
    ControlsCalledFrom(name, args, returned, effects, NotConstructed)

ControlsInit ==
    /\ \E r \in ControlsRects :
           LET w == ControlsWidget_init(r)
           IN  /\ controls_rect = w.rect
               /\ play_pause_button = w.play_pause_button
               /\ reset_button = w.reset_button
               /\ speed_control = w.speed_control
               /\ temperature_slider = w.temperature_slider
               /\ reset_requested = w.reset_requested
    /\ NoMenu
    /\ NoButton
    /\ NoBefore
    /\ NoHistory
    /\ NoApp
    /\ NoCatalog
    /\ op = "init"
    /\ arg = NoArgs
    /\ ret = FALSE
    /\ trace = <<>>

ControlsHandleEvent ==
    \E ev \in ControlsEvents :
        LET w == ControlsWidget_handle_event(widget, ev)
        IN  /\ ControlsWidget_speed(w) <= MaxSpeed
            /\ Holds(w)
            /\ ControlsCalled("handle_event", ev, FALSE, <<>>)

ControlsUpdate ==
    /\ Holds(ControlsWidget_update(widget))
    /\ ControlsCalled("update", NoArgs, FALSE, <<>>)

ControlsSetRect ==
    \E r \in ControlsRects :
        /\ Holds(ControlsWidget_set_rect(widget, r))
        /\ ControlsCalledFrom("set_rect", r, FALSE, <<>>,
                              DragState(temperature_slider))

\* A caller assigns reset_requested = False.
ClearResetRequested ==
    /\ Holds([widget EXCEPT !.reset_requested = FALSE])
    /\ ControlsCalled("clear", NoArgs, FALSE, <<>>)

\* One frame's MDApplication.update; ret tells whether it raised.
AppUpdate ==
    LET out == MDApplication_update(widget)
    IN  /\ Holds(out.widget)
        /\ ControlsCalled("app_update", NoArgs, out.raised, out.effects)

ControlsNext ==
    \/ ControlsHandleEvent
    \/ ControlsUpdate
    \/ ControlsSetRect
    \/ ClearResetRequested
    \/ AppUpdate

ControlsSpec == ControlsInit /\ [][ControlsNext]_vars

(***************************************************************************)
(* An MDApplication.  A caller constructs it and then either calls its     *)
(* methods itself (as the tests do with the widgets) or calls run(), which *)
(* calls them in its loop; pc tells where run() is.                        *)
(***************************************************************************)
\* The most integration steps the engine is driven to.
MaxSteps == 2

\* Window sizes of resize events: the default one, one with an odd width
\* and height, and one smaller than the margins.
WindowSizes == { <<WINDOW_WIDTH, WINDOW_HEIGHT>>, <<601, 401>>, <<200, 121>> }

\* In the default layout: the centres of the play/pause and reset buttons
\* and a position on the slider's track.
AppProbes == { <<850, 550>>, <<920, 550>>, <<1050, 635>> }

AppEvents ==
    { [type |-> QUIT] }
    \cup
    { [type |-> VIDEORESIZE, w |-> s[1], h |-> s[2]] : s \in WindowSizes }
    \cup
    { [type |-> MOUSEBUTTONDOWN, button |-> 1, pos |-> p] : p \in AppProbes }

\* The arguments SimulationWidget.update is called with.
UpdateArgs ==
    { <<playing>> : playing \in BOOLEAN }
    \cup
    { <<playing, steps_per_frame>> :
          playing \in BOOLEAN, steps_per_frame \in {1, 2} }

\* The MDApplication the variables hold.
application ==
    [WINDOW_WIDTH |-> app.WINDOW_WIDTH,
     WINDOW_HEIGHT |-> app.WINDOW_HEIGHT,
     SIMULATION_RECT |-> app.SIMULATION_RECT,
     PERIODIC_TABLE_RECT |-> app.PERIODIC_TABLE_RECT,
     CONTROLS_RECT |-> app.CONTROLS_RECT,
     running |-> app.running,
     simulation_widget |-> simulation_widget,
     periodic_table_widget |-> periodic_table_widget,
     controls_widget |-> widget]

Attributes(a) ==
    [WINDOW_WIDTH |-> a.WINDOW_WIDTH,
     WINDOW_HEIGHT |-> a.WINDOW_HEIGHT,
     SIMULATION_RECT |-> a.SIMULATION_RECT,
     PERIODIC_TABLE_RECT |-> a.PERIODIC_TABLE_RECT,
     CONTROLS_RECT |-> a.CONTROLS_RECT,
     running |-> a.running]

\* The variables hold the MDApplication a.
AppHolds(a) ==
    /\ app' = Attributes(a)
    /\ simulation_widget' = a.simulation_widget
    /\ periodic_table_widget' = a.periodic_table_widget
    /\ Holds(a.controls_widget)

AppCalled(name, args, returned, effects) ==
    /\ op' = name
    /\ arg' = args
    /\ ret' = returned
    /\ trace' = effects
    /\ UNCHANGED <<menuVars, catalogVars, button, before, init_args, history>>

\* run() is not executing: the caller has the control.
Idle == pc = "idle"

AppInit ==
    /\ LET a == MDApplication_init
       IN  /\ app = Attributes(a)
           /\ simulation_widget = a.simulation_widget
           /\ periodic_table_widget = a.periodic_table_widget
           /\ controls_rect = a.controls_widget.rect
           /\ play_pause_button = a.controls_widget.play_pause_button
           /\ reset_button = a.controls_widget.reset_button
           /\ speed_control = a.controls_widget.speed_control
           /\ temperature_slider = a.controls_widget.temperature_slider
           /\ reset_requested = a.controls_widget.reset_requested
    /\ pc = "idle"
    /\ NoMenu
    /\ NoButton
    /\ NoBefore
    /\ NoHistory
    /\ NoCatalog
    /\ op = "init"
    /\ arg = NoArgs
    /\ ret = FALSE
    /\ trace = <<>>

\* One pass of the loop of handle_events, for an event pygame.event.get()
\* returned, in a call from the caller or from run().
HandleEventThen(after) ==
    \E ev \in AppEvents :
        LET out == MDApplication_handle_event(application, ev)
        IN  /\ AppHolds(out.app)
            /\ pc' = after
            /\ AppCalled("handle_events", ev, FALSE, out.effects)

\* update(), from the caller or from run(); ret tells whether it raised.
UpdateThen(after, after_raise) ==
    LET out == MDApplication_update_widgets(application)
    IN  /\ AppHolds(out.app)
        /\ pc' = IF out.raised THEN after_raise ELSE after
        /\ AppCalled("update", NoArgs, out.raised, out.effects)

\* render() draws and changes nothing.
RenderThen(after) ==
    /\ AppHolds(application)
    /\ pc' = after
    /\ AppCalled("render", NoArgs, FALSE, <<>>)

\* quit() shuts pygame down.
QuitThen(after) ==
    /\ AppHolds(application)
    /\ pc' = after
    /\ AppCalled("quit", NoArgs, FALSE, <<>>)

ShellHandleEvents == Idle /\ HandleEventThen("idle")

ShellUpdate == Idle /\ UpdateThen("idle", "idle")

ShellRender == Idle /\ RenderThen("idle")

ShellQuit == Idle /\ QuitThen("idle")

\* simulation_widget.update(...), called by the caller.
SimulationUpdate ==
    /\ Idle
    /\ simulation_widget.engine.steps < MaxSteps
    /\ \E args \in UpdateArgs, calculator_raises \in BOOLEAN :
           LET out == SimulationWidget_update(simulation_widget, args,
                                              calculator_raises)
           IN  /\ out.effects = <<>> => ~calculator_raises
               /\ AppHolds([application EXCEPT
                               !.simulation_widget = out.widget])
               /\ pc' = pc
               /\ AppCalled("simulation_widget.update", args, out.raised,
                            out.effects)

\* run(), up to the first test of "while self.running".
ShellRun ==
    /\ Idle
    /\ AppHolds([application EXCEPT !.running = TRUE])
    /\ pc' = "handle_events"
    /\ AppCalled("run", NoArgs, FALSE, <<>>)

\* Where run() goes after clock.tick: the test of "while self.running".
AfterTick == IF app.running THEN "handle_events" ELSE "quit"

\* The statements of the loop of run(), and where run() ends.
RunPhases == {"handle_events", "update", "render", "tick", "quit"}

\* The next statement of run(): one pass of the loop of handle_events or
\* its end, update(), render(), clock.tick and the test of the while, or
\* quit().  What update() raises leaves run().
ShellRunStep ==
    /\ pc \in RunPhases
    /\ CASE pc = "handle_events" ->
               \E more \in BOOLEAN :
                   IF more
                       THEN HandleEventThen("handle_events")
                       ELSE /\ AppHolds(application)
                            /\ pc' = "update"
                            /\ AppCalled("handle_events.return", NoArgs,
                                         FALSE, <<>>)
         [] pc = "update" -> UpdateThen("render", "raised")
         [] pc = "render" -> RenderThen("tick")
         [] pc = "tick" ->
               /\ AppHolds(application)
               /\ pc' = AfterTick
               /\ AppCalled("clock.tick", NoArgs, FALSE, <<>>)
         [] pc = "quit" -> QuitThen("returned")

AppNext ==
    \/ ShellHandleEvents
    \/ ShellUpdate
    \/ ShellRender
    \/ ShellQuit
    \/ SimulationUpdate
    \/ ShellRun
    \/ ShellRunStep

AppSpec == AppInit /\ [][AppNext]_vars

(***************************************************************************)
(* An MDApplication whose window is resized: handle_events is given one    *)
(* VIDEORESIZE event after another.                                        *)
(***************************************************************************)
\* Widths and heights of the window: at and about the sizes at which a
\* rectangle of the layout gets its first pixel, odd and even ones, and the
\* sizes of common displays.
LayoutWidths == {200, 301, 302, 303, 304, 400, 601, 823, 1000, 1400, 1920}

LayoutHeights == {121, 300, 301, 302, 303, 400, 401, 600, 800, 801, 1080}

LayoutResize ==
    \E w \in LayoutWidths, h \in LayoutHeights :
        LET ev == [type |-> VIDEORESIZE, w |-> w, h |-> h]
            out == MDApplication_handle_event(application, ev)
        IN  /\ AppHolds(out.app)
            /\ pc' = "idle"
            /\ AppCalled("handle_events", ev, FALSE, out.effects)

LayoutNext == LayoutResize

LayoutSpec == AppInit /\ [][LayoutNext]_vars

(***************************************************************************)
(* data/presets.py.  An Atoms object is modelled by what the preset        *)
(* generators decide of it: the number of atoms, the bounding box of the   *)
(* positions (box: its lowest and highest corner), the edge lengths of the *)
(* cell (a cell given as three lengths, or built with cubic=True, has      *)
(* orthogonal axes and a corner at the origin) and the periodic flag of    *)
(* each axis.  Lengths are in units of 0.001 Angstrom.  The geometry of a  *)
(* molecule or ribbon comes from ASE's tables: a generator is given the    *)
(* extent of the positions ASE returns along each axis (size), whatever it *)
(* is; the extents used are even, so that halving them is exact.           *)
(***************************************************************************)
Atoms(natoms, box, cell, pbc) ==
    [natoms |-> natoms, box |-> box, cell |-> cell, pbc |-> pbc]

AllAxes == <<TRUE, TRUE, TRUE>>

NoAxis == <<FALSE, FALSE, FALSE>>

\* A box of the given extents about the origin.
BoxAbout(size) ==
    << <<-(size[1] \div 2), -(size[2] \div 2), -(size[3] \div 2)>>,
       <<size[1] - (size[1] \div 2), size[2] - (size[2] \div 2),
         size[3] - (size[3] \div 2)>> >>

\* ase.build.molecule: the atoms of the formula, placed about the origin,
\* no cell, not periodic.
molecule(name, size) ==
    Atoms(CASE name = "H2O" -> 3
            [] name = "CH3CH2OH" -> 9
            [] name = "CH4" -> 5
            [] name = "C6H6" -> 12
            [] name = "CO2" -> 3,
          BoxAbout(size), <<0, 0, 0>>, NoAxis)

\* ase.build.bulk(..., cubic=True): the conventional cubic cell of edge a,
\* its atoms from the corner at the origin up to 3/4 (diamond) or 1/2 of
\* the edge.
bulk(structure, a) ==
    LET top == IF structure = "diamond" THEN (3 * a) \div 4 ELSE a \div 2
    IN  Atoms(CASE structure = "diamond" -> 8
                [] structure = "fcc" -> 4
                [] structure = "rocksalt" -> 8,
              << <<0, 0, 0>>, <<top, top, top>> >>, <<a, a, a>>, AllAxes)

\* Atoms.repeat((2, 2, 2)).
repeat(atoms) ==
    [atoms EXCEPT !.natoms = 8 * atoms.natoms,
                  !.box = << atoms.box[1],
                             << atoms.cell[1] + atoms.box[2][1],
                                atoms.cell[2] + atoms.box[2][2],
                                atoms.cell[3] + atoms.box[2][3] >> >>,
                  !.cell = <<2 * atoms.cell[1], 2 * atoms.cell[2],
                             2 * atoms.cell[3]>>]

\* Atoms.center(): the positions are moved so that their bounding box is
\* centred in the cell.
center(atoms) ==
    LET lo == atoms.box[1]
        hi == atoms.box[2]
        low(i) == (atoms.cell[i] - (hi[i] - lo[i])) \div 2
    IN  [atoms EXCEPT
            !.box = << <<low(1), low(2), low(3)>>,
                       <<low(1) + (hi[1] - lo[1]), low(2) + (hi[2] - lo[2]),
                         low(3) + (hi[3] - lo[3])>> >>]

\* Atoms.rotate(90, 'y'): every position (x, y, z) becomes (z, y, -x); the
\* rotation is about the origin and leaves the cell and pbc alone.
rotate_y(atoms) ==
    LET lo == atoms.box[1]
        hi == atoms.box[2]
    IN  [atoms EXCEPT
            !.box = << <<lo[3], lo[2], -hi[1]>>, <<hi[3], hi[2], -lo[1]>> >>]

Max3(size) == Max(size[1], Max(size[2], size[3]))

\* A slip of _molecule_in_box: the box is set but pbc is left as it was.
molecule_in_box_open(molecule_name, vacuum, size) ==
    center([molecule(molecule_name, size) EXCEPT
               !.cell = <<Max3(size) + 2 * vacuum, Max3(size) + 2 * vacuum,
                          Max3(size) + 2 * vacuum>>])

molecule_in_box(molecule_name, vacuum, size) ==
    LET cell_size == Max3(size) + 2 * vacuum
    IN  [center([molecule(molecule_name, size) EXCEPT
                    !.cell = <<cell_size, cell_size, cell_size>>])
            EXCEPT !.pbc = AllAxes]

create_water_molecule(size) == rotate_y(molecule_in_box("H2O", 5000, size))

create_ethanol_molecule(size) == molecule_in_box("CH3CH2OH", 5000, size)

create_methane_molecule(size) == molecule_in_box("CH4", 5000, size)

create_benzene_molecule(size) == molecule_in_box("C6H6", 5000, size)

create_co2_molecule(size) == rotate_y(molecule_in_box("CO2", 5000, size))

create_diamond_lattice(size) == bulk("diamond", 3567)

create_fcc_gold(size) == repeat(bulk("fcc", 4080))

\* graphene_nanoribbon(3, 4, type='zigzag'): 2 * 3 * 4 atoms, periodic
\* along the ribbon only; size is the extent of the positions after the
\* rotation into the x-y plane.
create_graphene_sheet(size) ==
    LET ribbon == Atoms(2 * 3 * 4, BoxAbout(size), size,
                        <<FALSE, FALSE, TRUE>>)
        xy_size == Max(size[1], size[2])
        cell_size == Max(xy_size + 6000, size[3] + 10000)
    IN  [center([ribbon EXCEPT !.cell = <<cell_size, cell_size, cell_size>>])
            EXCEPT !.pbc = AllAxes]

create_nacl_crystal(size) == bulk("rocksalt", 5640)

create_copper_fcc(size) == repeat(bulk("fcc", 3610))

\* Eight O on a 2 x 2 x 2 grid of spacing a and two H for each, 0.96
\* Angstrom from it along x and along y.
create_ice_crystal(size) ==
    LET a == 2760
        o_positions == 2 * 2 * 2
        h_positions == 2 * o_positions
        cell_size == 2 * a
    IN  center(Atoms(o_positions + h_positions,
                     << <<0, 0, 0>>, <<a + 960, a + 960, a>> >>,
                     <<cell_size, cell_size, cell_size>>, AllAxes))

\* The registry: a dict, so its entries are kept in insertion order.
Preset(id, name, creator) == [id |-> id, name |-> name, creator |-> creator]

PRESETS_registry ==
    << Preset("water", "Water molecule", "create_water_molecule"),
       Preset("ice", "Ice crystal", "create_ice_crystal"),
       Preset("ethanol", "Ethanol molecule", "create_ethanol_molecule"),
       Preset("methane", "Methane molecule", "create_methane_molecule"),
       Preset("benzene", "Benzene molecule", "create_benzene_molecule"),
       Preset("co2", "Carbon dioxide", "create_co2_molecule"),
       Preset("diamond", "Diamond lattice", "create_diamond_lattice"),
       Preset("gold", "FCC gold", "create_fcc_gold"),
       Preset("graphene", "Graphene sheet", "create_graphene_sheet"),
       Preset("nacl", "NaCl crystal", "create_nacl_crystal"),
       Preset("copper", "FCC copper", "create_copper_fcc") >>

\* Calling the function a registry entry holds.
creator_func(creator, size) ==
    CASE creator = "create_water_molecule" -> create_water_molecule(size)
      [] creator = "create_ice_crystal" -> create_ice_crystal(size)
      [] creator = "create_ethanol_molecule" -> create_ethanol_molecule(size)
      [] creator = "create_methane_molecule" -> create_methane_molecule(size)
      [] creator = "create_benzene_molecule" -> create_benzene_molecule(size)
      [] creator = "create_co2_molecule" -> create_co2_molecule(size)
      [] creator = "create_diamond_lattice" -> create_diamond_lattice(size)
      [] creator = "create_fcc_gold" -> create_fcc_gold(size)
      [] creator = "create_graphene_sheet" -> create_graphene_sheet(size)
      [] creator = "create_nacl_crystal" -> create_nacl_crystal(size)
      [] creator = "create_copper_fcc" -> create_copper_fcc(size)

\* What a call of a registry function comes to: the value it returns or the
\* exception it raises, and the generators it called on the way.
NoException == "no exception"

NoValue == "no value"

Returned(value, made) ==
    [raised |-> NoException, value |-> value, calls |-> made]

Raised(exception, made) ==
    [raised |-> exception, value |-> NoValue, calls |-> made]

GeneratorCall(creator) == <<creator, "">>

\* preset_id in PRESETS, and PRESETS[preset_id].
InRegistry(preset_id) == \E i \in DOMAIN PRESETS : PRESETS[i].id = preset_id

RegistryEntry(preset_id) ==
    PRESETS[CHOOSE i \in DOMAIN PRESETS : PRESETS[i].id = preset_id]

get_preset_names == [i \in DOMAIN PRESETS |-> PRESETS[i].id]

get_preset_display_name(preset_id) ==
    IF InRegistry(preset_id)
        THEN Returned(RegistryEntry(preset_id).name, <<>>)
        ELSE Returned(preset_id, <<>>)

\* A slip of create_preset: an unknown identifier gets the first generator.
create_preset_fallback(preset_id, size) ==
    LET creator == IF InRegistry(preset_id)
                       THEN RegistryEntry(preset_id).creator
                       ELSE PRESETS[1].creator
    IN  Returned(creator_func(creator, size), <<GeneratorCall(creator)>>)

create_preset(preset_id, size) ==
    IF ~InRegistry(preset_id)
        THEN Raised("ValueError", <<>>)
        ELSE LET creator == RegistryEntry(preset_id).creator
             IN  Returned(creator_func(creator, size),
                          <<GeneratorCall(creator)>>)

(***************************************************************************)
(* PresetsMenu (widgets/menus.py): a Menu titled "Load Preset" that closes *)
(* on selection and holds one item for each preset of the registry.        *)
(***************************************************************************)
MenuItem_text(r, text, cb) ==
    [rect |-> r, text |-> text, hovered |-> FALSE, enabled |-> TRUE,
     callback |-> cb]

\* The lambda add_item is given in the k-th pass of the loop of __init__.
PresetsMenu_item_callback(k) == UserCallback(k)

PresetsMenu_items(r) ==
    [k \in DOMAIN get_preset_names |->
        MenuItem_text(Menu_item_rect_at(r, k - 1),
                      get_preset_display_name(get_preset_names[k]).value,
                      Menu_final_callback(PresetsMenu_item_callback(k)))]

PresetsMenu_init(r, cb) ==
    /\ Menu_init_attributes(r, TRUE, TRUE, TRUE)
    /\ load_callback = cb
    /\ items = PresetsMenu_items(r)

LoadCall(preset_id) == <<"load_callback", preset_id>>

\* The calls _load_preset makes out of the menu.
PresetsMenu_load_preset(preset_id) ==
    IF load_callback # None THEN <<LoadCall(preset_id)>> ELSE <<>>

\* A slip of the loop: "lambda: self._load_preset(preset_id)" reads the loop
\* variable when it is called, after the loop has ended.
PresetsMenu_lambda_late(k) ==
    PresetsMenu_load_preset(get_preset_names[Len(get_preset_names)])

\* "lambda pid=preset_id: self._load_preset(pid)": the default is bound in
\* the pass that makes the lambda.
PresetsMenu_lambda(k) == PresetsMenu_load_preset(get_preset_names[k])

\* The calls made out of the menu by the item callbacks an event ran.
RECURSIVE PresetsMenu_run(_)
PresetsMenu_run(effects) ==
    IF effects = <<>>
        THEN <<>>
        ELSE (IF Head(effects)[1] = "callback"
                  THEN PresetsMenu_lambda(Head(effects)[2])
                  ELSE <<>>)
             \o PresetsMenu_run(Tail(effects))

(***************************************************************************)
(* The registry functions and a PresetsMenu, called in any order.          *)
(***************************************************************************)
PresetsRects == { Rect(100, 50, 300, 500), Rect(0, 0, 200, 120) }

\* Bounding boxes ASE may hand a generator: a point, a water molecule, a
\* flat ribbon.
Sizes == { <<0, 0, 0>>, <<0, 1526, 596>>, <<7380, 4970, 0>> }

\* Identifiers asked for: every key of the registry and some that are not.
UnknownIds == { "", "Water", "ethane", "Water molecule" }

PresetIds == { PRESETS_registry[i].id : i \in DOMAIN PRESETS_registry }
                 \cup UnknownIds

\* The centre of every item and of the close button, the title bar and a
\* point off the menu.
MenuProbes ==
    { <<centerx(items[i].rect), centery(items[i].rect)>> : i \in DOMAIN items }
        \cup { <<centerx(close_button[i].rect), centery(close_button[i].rect)>> :
                   i \in DOMAIN close_button }
        \cup { <<rect.x + margin, rect.y + margin>>, <<900, 900>> }

MenuMotionProbes ==
    { <<centerx(items[1].rect), centery(items[1].rect)>>, <<900, 900>> }

MenuEvents ==
    { [type |-> MOUSEBUTTONDOWN, button |-> 1, pos |-> p] : p \in MenuProbes }
        \cup { [type |-> MOUSEMOTION, button |-> 0, pos |-> p] :
                   p \in MenuMotionProbes }
        \cup { [type |-> MOUSEBUTTONDOWN, button |-> 3, pos |-> p] :
                   p \in MenuMotionProbes }

PresetsInit ==
    /\ PRESETS = PRESETS_registry
    /\ \E r \in PresetsRects, cb \in {None, UserCallback(1)} :
           PresetsMenu_init(r, cb)
    /\ exit_callback = NotConstructed
    /\ about_textbox = NotConstructed
    /\ copyright_textbox = NotConstructed
    /\ calls = <<>>
    /\ NoWidgets
    /\ NoApp
    /\ op = "init"
    /\ arg = NoArgs
    /\ ret = FALSE
    /\ trace = <<>>
    /\ visibleBefore = FALSE

\* What a call records; the registry and the callbacks are never assigned.
CatalogCalled(name, args, returned, effects, made) ==
    /\ op' = name
    /\ arg' = args
    /\ ret' = returned
    /\ trace' = effects
    /\ calls' = made
    /\ visibleBefore' = visible
    /\ UNCHANGED <<widgetVars, appVars, PRESETS, load_callback, exit_callback>>

MenuUntouched == UNCHANGED <<rect, visible, config, close_button, items>>

PresetsOpen ==
    /\ Menu_open
    /\ CatalogCalled("open", NoArgs, FALSE, Menu_open_effects, <<>>)
    /\ UNCHANGED <<about_textbox, copyright_textbox>>

PresetsHandleEvent ==
    \E ev \in MenuEvents :
        /\ Menu_handle_event(ev)
        /\ op' = "handle_event"
        /\ arg' = ev
        /\ calls' = PresetsMenu_run(Menu_handle_event_outcome(ev).effects)
        /\ visibleBefore' = visible
        /\ UNCHANGED <<widgetVars, appVars, PRESETS, load_callback,
                       exit_callback, about_textbox, copyright_textbox>>

GetPresetNames ==
    /\ CatalogCalled("get_preset_names", NoArgs,
                     Returned(get_preset_names, <<>>), <<>>, <<>>)
    /\ MenuUntouched
    /\ UNCHANGED <<about_textbox, copyright_textbox>>

GetPresetDisplayName ==
    \E id \in PresetIds :
        /\ CatalogCalled("get_preset_display_name", <<id>>,
                         get_preset_display_name(id), <<>>,
                         get_preset_display_name(id).calls)
        /\ MenuUntouched
        /\ UNCHANGED <<about_textbox, copyright_textbox>>

CreatePreset ==
    \E id \in PresetIds, size \in Sizes :
        /\ CatalogCalled("create_preset", <<id, size>>,
                         create_preset(id, size), <<>>,
                         create_preset(id, size).calls)
        /\ MenuUntouched
        /\ UNCHANGED <<about_textbox, copyright_textbox>>

PresetsNext ==
    \/ PresetsOpen
    \/ PresetsHandleEvent
    \/ GetPresetNames
    \/ GetPresetDisplayName
    \/ CreatePreset

PresetsSpec == PresetsInit /\ [][PresetsNext]_vars

(***************************************************************************)
(* TextBox (widgets/base.py): a dialog with the open/close lifecycle of a  *)
(* Menu, closed when constructed.                                          *)
(***************************************************************************)
TextBox(r, title) == [rect |-> r, title |-> title, visible |-> FALSE]

TextBox_open(t) == [t EXCEPT !.visible = TRUE]

(***************************************************************************)
(* MainMenu (widgets/menus.py): a Menu titled "Menu" that stays open on    *)
(* selection.  Its item callbacks are bound methods, told apart by number. *)
(***************************************************************************)
show_about == 1

open_website == 2

show_copyright == 3

show_third_party_info == 4

exit_application == 5

\* A slip of __init__: the flag is left at the default of Menu.
MainMenu_auto_close_on_select_default == TRUE

\* The auto_close_on_select argument MainMenu.__init__ passes on.
MainMenu_auto_close_on_select == FALSE

\* getattr(sys, "frozen", False) or force_show_third_party
MainMenu_shows_third_party(frozen, force_show_third_party) ==
    frozen \/ force_show_third_party

\* The add_item calls of __init__, in order: text and callback.
MainMenu_added(frozen, force_show_third_party) ==
    << <<"About", show_about>>,
       <<"Website", open_website>>,
       <<"Copyright", show_copyright>> >>
    \o (IF MainMenu_shows_third_party(frozen, force_show_third_party)
            THEN << <<"Third Party Information", show_third_party_info>> >>
            ELSE <<>>)
    \o << <<"Exit", exit_application>> >>

MainMenu_items(r, frozen, force_show_third_party) ==
    LET added == MainMenu_added(frozen, force_show_third_party)
    IN  [k \in DOMAIN added |->
            MenuItem_text(Menu_item_rect_at(r, k - 1), added[k][1],
                          Menu_final_callback(UserCallback(added[k][2])))]

MainMenu_init(r, cb, frozen, force_show_third_party) ==
    /\ Menu_init_attributes(r, TRUE, TRUE, MainMenu_auto_close_on_select)
    /\ exit_callback = cb
    /\ about_textbox = TextBox(Rect(0, 0, 500, 500), "About")
    /\ copyright_textbox = TextBox(Rect(0, 0, 500, 500), "Copyright")
    /\ items = MainMenu_items(r, frozen, force_show_third_party)

\* What a callback leaves: the two text boxes and the calls made out of the
\* menu so far.
Dialogs(about, copyright, made) ==
    [about_textbox |-> about, copyright_textbox |-> copyright, calls |-> made]

ExitCall == <<"exit_callback", "">>

BrowserCall(url) == <<"webbrowser.open", url>>

ErrorCall(message) == <<"logger.error", message>>

MainMenu_show_about(d) ==
    [d EXCEPT !.about_textbox = TextBox_open(d.about_textbox)]

MainMenu_show_copyright(d) ==
    [d EXCEPT !.copyright_textbox = TextBox_open(d.copyright_textbox)]

MainMenu_open_website(d) ==
    [d EXCEPT !.calls =
        Append(d.calls,
               BrowserCall("https://github.com/bfield1/molecular-dynamics-toy"))]

\* html_exists: os.path.exists(html_path).
MainMenu_show_third_party_info(d, html_exists) ==
    [d EXCEPT !.calls =
        Append(d.calls,
               IF html_exists
                   THEN BrowserCall("ThirdPartyNotices.html")
                   ELSE ErrorCall("Third party notices file not found"))]

MainMenu_exit_application(d) ==
    IF exit_callback # None
        THEN [d EXCEPT !.calls = Append(d.calls, ExitCall)]
        ELSE d

MainMenu_callback(k, d, html_exists) ==
    CASE k = show_about -> MainMenu_show_about(d)
      [] k = open_website -> MainMenu_open_website(d)
      [] k = show_copyright -> MainMenu_show_copyright(d)
      [] k = show_third_party_info ->
             MainMenu_show_third_party_info(d, html_exists)
      [] k = exit_application -> MainMenu_exit_application(d)

\* What the item callbacks an event ran leave, in the order they ran.
RECURSIVE MainMenu_run(_, _, _)
MainMenu_run(effects, d, html_exists) ==
    IF effects = <<>>
        THEN d
        ELSE MainMenu_run(Tail(effects),
                          IF Head(effects)[1] = "callback"
                              THEN MainMenu_callback(Head(effects)[2], d,
                                                     html_exists)
                              ELSE d,
                          html_exists)

(***************************************************************************)
(* A MainMenu, opened and sent events in any order.                        *)
(***************************************************************************)
MainMenuRects == { Rect(100, 50, 300, 400), Rect(0, 0, 200, 120) }

MainMenuInit ==
    /\ \E r \in MainMenuRects, cb \in {None, UserCallback(1)},
          frozen \in BOOLEAN, force \in BOOLEAN :
           /\ MainMenu_init(r, cb, frozen, force)
           /\ init_args = [frozen |-> frozen, force_show_third_party |-> force]
    /\ PRESETS = NotConstructed
    /\ load_callback = NotConstructed
    /\ calls = <<>>
    /\ NoButton
    /\ NoPlayPauseButton
    /\ NoSpeedControl
    /\ NoTemperatureSlider
    /\ NoControlsWidget
    /\ NoBefore
    /\ history = NotConstructed
    /\ NoApp
    /\ op = "init"
    /\ arg = NoArgs
    /\ ret = FALSE
    /\ trace = <<>>
    /\ visibleBefore = FALSE

MainMenuOpen ==
    /\ Menu_open
    /\ CatalogCalled("open", NoArgs, FALSE, Menu_open_effects, <<>>)
    /\ UNCHANGED <<about_textbox, copyright_textbox>>

MainMenuHandleEvent ==
    \E ev \in MenuEvents, html_exists \in BOOLEAN :
        LET d == MainMenu_run(Menu_handle_event_outcome(ev).effects,
                              Dialogs(about_textbox, copyright_textbox, <<>>),
                              html_exists)
        IN  /\ Menu_handle_event(ev)
            /\ op' = "handle_event"
            /\ arg' = ev
            /\ calls' = d.calls
            /\ about_textbox' = d.about_textbox
            /\ copyright_textbox' = d.copyright_textbox
            /\ visibleBefore' = visible
            /\ UNCHANGED <<widgetVars, appVars, PRESETS, load_callback,
                           exit_callback>>

MainMenuNext ==
    \/ MainMenuOpen
    \/ MainMenuHandleEvent

MainMenuSpec == MainMenuInit /\ [][MainMenuNext]_vars

(***************************************************************************)
(* A SimulationWidget on its own: a caller adds atoms to its engine,       *)
(* assigns the engine a new atomic system, updates the widget and asks it  *)
(* to reset, in any order.  history counts the atoms of the system last    *)
(* assigned and the atoms added since.                                     *)
(***************************************************************************)
\* The most atoms a system is grown to.
MaxAtoms == 4

\* SimulationWidget.reset(): the class defines no such method, so the call
\* raises AttributeError and the widget is left as it was.
SimulationWidget_reset(sw) ==
    IF "reset" \in SimulationWidget_names
        THEN [widget |-> [sw EXCEPT !.engine = SimulationWidget_create_engine],
              raised |-> FALSE]
        ELSE [widget |-> sw, raised |-> TRUE]

EngineRects == { Rect(50, 50, 700, 700) }

AddedSymbols == { "H", "O" }

\* Positions of add_atom: the centre of the default cell and a point out
\* of it.
AddedPositions == { <<5000, 5000, 5000>>, <<-1000, 12000, 0>> }

\* Systems assigned to engine.atoms: the H2 of the test in a 20 Angstrom
\* cell, an atom that comes bound to another calculator, an empty system.
AssignedSystems ==
    { AtomicSystem(<<"H", "H">>, << <<-370, 0, 0>>, <<370, 0, 0>> >>,
                   <<20000, 20000, 20000>>, <<TRUE, TRUE, TRUE>>,
                   NoCalculator),
      AtomicSystem(<<"O">>, << <<0, 0, 0>> >>, <<0, 0, 0>>,
                   <<FALSE, FALSE, FALSE>>, "another calculator"),
      AtomicSystem(<<>>, <<>>, <<0, 0, 0>>, <<FALSE, FALSE, FALSE>>,
                   NoCalculator) }

EngineInit ==
    /\ \E r \in EngineRects : simulation_widget = SimulationWidget(r)
    /\ history = [assigned |-> 0, added |-> 2]
    /\ app = NotConstructed
    /\ periodic_table_widget = NotConstructed
    /\ pc = NotConstructed
    /\ NoMenu
    /\ NoButton
    /\ NoPlayPauseButton
    /\ NoSpeedControl
    /\ NoTemperatureSlider
    /\ NoControlsWidget
    /\ NoBefore
    /\ init_args = NotConstructed
    /\ NoCatalog
    /\ op = "init"
    /\ arg = NoArgs
    /\ ret = FALSE
    /\ trace = <<>>

\* What a call on the widget or its engine records: whether it raised.
EngineCalled(name, args, raised, effects) ==
    /\ op' = name
    /\ arg' = args
    /\ ret' = raised
    /\ trace' = effects
    /\ UNCHANGED <<menuVars, catalogVars, app, periodic_table_widget, pc,
                   button, play_pause_button, reset_button, speed_control,
                   temperature_slider, controls_rect, reset_requested, before,
                   init_args>>

EngineAddAtom ==
    /\ Len(simulation_widget.engine.atoms.symbols) < MaxAtoms
    /\ \E symbol \in AddedSymbols, position \in AddedPositions :
           /\ simulation_widget' =
                  [simulation_widget EXCEPT
                      !.engine = MDEngine_add_atom(@, symbol, position)]
           /\ history' = [history EXCEPT !.added = @ + 1]
           /\ EngineCalled("add_atom", <<symbol, position>>, FALSE, <<>>)

EngineSetAtoms ==
    \E atoms \in AssignedSystems :
        /\ simulation_widget' =
               [simulation_widget EXCEPT
                   !.engine = MDEngine_set_atoms(@, atoms)]
        /\ history' = [assigned |-> Len(atoms.symbols), added |-> 0]
        /\ EngineCalled("atoms.setter", <<atoms>>, FALSE, <<>>)

EngineUpdate ==
    /\ simulation_widget.engine.steps < MaxSteps
    /\ \E playing \in BOOLEAN, calculator_raises \in BOOLEAN :
           LET out == SimulationWidget_update(simulation_widget, <<playing>>,
                                              calculator_raises)
           IN  /\ out.effects = <<>> => ~calculator_raises
               /\ simulation_widget' = out.widget
               /\ UNCHANGED history
               /\ EngineCalled("update", <<playing>>, out.raised, out.effects)

WidgetReset ==
    LET out == SimulationWidget_reset(simulation_widget)
    IN  /\ simulation_widget' = out.widget
        /\ history' = IF out.raised THEN history
                                    ELSE [assigned |-> 0, added |-> 2]
        /\ EngineCalled("reset", NoArgs, out.raised, <<>>)

EngineNext ==
    \/ EngineAddAtom
    \/ EngineSetAtoms
    \/ EngineUpdate
    \/ WidgetReset

EngineSpec == EngineInit /\ [][EngineNext]_vars

(***************************************************************************)
(* ToggleButton (base.py): a Button with a selected flag that on_click     *)
(* flips.  A ToggleButton on its own is constructed, then clicked and      *)
(* hovered at any position, and enabled or disabled by its owner; history  *)
(* counts the clicks that hit it while it was enabled.                     *)
(***************************************************************************)
ToggleButton(r, cb, en, selected) ==
    [rect |-> r, hovered |-> FALSE, enabled |-> en, callback |-> cb,
     selected |-> selected]

\* What on_click leaves in self.selected, seen by whatever runs after it.
SelectedEffect(selected) == <<"selected", selected>>

\* A slip of on_click: the button is selected, not toggled.
ToggleButton_on_click_select(b) == [b EXCEPT !.selected = TRUE]

ToggleButton_on_click(b) == [b EXCEPT !.selected = ~b.selected]

\* Button.handle_click on a ToggleButton: the button it leaves, the value it
\* returns, and on_click and the callback in the order they ran.
ToggleButton_handle_click(b, pos) ==
    IF ~b.enabled
        THEN [button |-> b, hit |-> FALSE, effects |-> <<>>]
    ELSE IF collidepoint(b.rect, pos)
        THEN [button |-> ToggleButton_on_click(b),
              hit |-> TRUE,
              effects |-> <<SelectedEffect(ToggleButton_on_click(b).selected)>>
                          \o (IF b.callback # None
                                  THEN RunCallback(b.callback)
                                  ELSE <<>>)]
    ELSE [button |-> b, hit |-> FALSE, effects |-> <<>>]

ToggleInit ==
    /\ \E r \in ButtonRects, cb \in {None, UserCallback(1)}, en \in BOOLEAN,
          selected \in BOOLEAN :
           /\ button = ToggleButton(r, cb, en, selected)
           /\ init_args = [selected |-> selected]
    /\ history = 0
    /\ NoMenu
    /\ NoPlayPauseButton
    /\ NoSpeedControl
    /\ NoTemperatureSlider
    /\ NoControlsWidget
    /\ NoBefore
    /\ NoApp
    /\ NoCatalog
    /\ op = "init"
    /\ arg = NoArgs
    /\ ret = FALSE
    /\ trace = <<>>

ToggleCalled(name, args, returned, effects) ==
    /\ op' = name
    /\ arg' = args
    /\ ret' = returned
    /\ trace' = effects
    /\ UNCHANGED <<besidesWidgets, menuVars, besidesButton, init_args>>

ToggleClick ==
    /\ history < MaxClicks
    /\ \E pos \in ButtonProbes :
           LET out == ToggleButton_handle_click(button, pos)
           IN  /\ button' = out.button
               /\ history' = IF button.enabled /\ collidepoint(button.rect, pos)
                                 THEN history + 1
                                 ELSE history
               /\ ToggleCalled("handle_click", pos, out.hit, out.effects)

ToggleHover ==
    \E pos \in ButtonProbes :
        /\ button' = Button_handle_hover(button, pos)
        /\ UNCHANGED history
        /\ ToggleCalled("handle_hover", pos, FALSE, <<>>)

\* The owner assigns button.enabled.
ToggleSetEnabled ==
    \E en \in BOOLEAN :
        /\ button' = [button EXCEPT !.enabled = en]
        /\ UNCHANGED history
        /\ ToggleCalled("enabled", <<en>>, FALSE, <<>>)

ToggleNext ==
    \/ ToggleClick
    \/ ToggleHover
    \/ ToggleSetEnabled

ToggleSpec == ToggleInit /\ [][ToggleNext]_vars

(***************************************************************************)
(* Vocabulary of the properties.  In an action formula the unprimed        *)
(* variables are the menu when the operation is called and the primed ones *)
(* the menu when it returns; op', arg', ret' and trace' describe the call. *)
(***************************************************************************)
IsPrimaryPress(a) == a.type = MOUSEBUTTONDOWN /\ a.button = 1

OnCloseButton(pos) ==
    close_button # NoCloseButton /\ collidepoint(close_button[1].rect, pos)

ItemsAt(pos) == { i \in DOMAIN items : collidepoint(items[i].rect, pos) }

CallsIn(t) == { j \in DOMAIN t : t[j][1] = "callback" }

Rects == << rect,
            [i \in DOMAIN close_button |-> close_button[i].rect],
            [i \in DOMAIN items |-> items[i].rect] >>

Callbacks == [i \in DOMAIN items |-> items[i].callback]

\* C1: while the menu is visible, a primary press on an item that has a
\* callback runs that callback exactly once; with auto-close-on-select the
\* menu is then closed (the callback first, the close after it, visible false
\* on return), and without it the menu stays visible.
C1_ItemClickAutoClose ==
    [][ (op' = "handle_event" /\ visible /\ IsPrimaryPress(arg')) =>
          \A i \in ItemsAt(arg'.pos) :
              items[i].callback # None =>
                  /\ ret' = TRUE
                  /\ trace' = IF auto_close_on_select
                                  THEN << CallEffect(items[i].callback.orig),
                                          CloseEffect >>
                                  ELSE << CallEffect(items[i].callback.orig) >>
                  /\ visible' = ~auto_close_on_select ]_vars

C1_Witness ==
    /\ op = "handle_event" /\ visibleBefore /\ IsPrimaryPress(arg)
    /\ auto_close_on_select
    /\ \E i \in ItemsAt(arg.pos) :
           /\ items[i].callback # None
           /\ trace = << CallEffect(items[i].callback.orig), CloseEffect >>
    /\ ~visible

\* C2: while the menu is visible and close-on-outside-click is set, a primary
\* press outside the menu rectangle, on no item and not on the close button,
\* closes the menu and is reported as handled.
C2_OutsideClickCloses ==
    [][ ( /\ op' = "handle_event" /\ visible /\ IsPrimaryPress(arg')
          /\ close_on_outside_click
          /\ ~collidepoint(rect, arg'.pos)
          /\ ItemsAt(arg'.pos) = {}
          /\ ~OnCloseButton(arg'.pos) ) =>
          /\ visible' = FALSE
          /\ ret' = TRUE
          /\ CallsIn(trace') = {} ]_vars

C2_Witness ==
    /\ op = "handle_event" /\ visibleBefore /\ IsPrimaryPress(arg)
    /\ close_on_outside_click
    /\ ~collidepoint(rect, arg.pos)
    /\ ItemsAt(arg.pos) = {}
    /\ ~OnCloseButton(arg.pos)
    /\ ~visible /\ ret

\* C3 (as claimed): while the menu is visible and close-on-outside-click is
\* not set, a primary press outside the menu rectangle leaves the menu
\* visible and handle_event returns true.
C3_OutsideClickStillHandled ==
    ( /\ op = "handle_event" /\ visibleBefore /\ IsPrimaryPress(arg)
      /\ ~close_on_outside_click
      /\ ~collidepoint(rect, arg.pos)
      /\ ItemsAt(arg.pos) = {}
      /\ ~OnCloseButton(arg.pos) ) =>
        (visible /\ ret = TRUE)

\* C4: while the menu is not visible, handle_event returns false for every
\* event and changes nothing: visibility, hover flags, rectangles and
\* callbacks are as before and no callback runs.
C4_InvisibleIgnoresEvents ==
    [][ (op' = "handle_event" /\ ~visible) =>
          /\ ret' = FALSE
          /\ trace' = <<>>
          /\ UNCHANGED <<rect, visible, config, close_button, items>> ]_vars

C4_Witness ==
    /\ op = "handle_event" /\ ~visibleBefore /\ IsPrimaryPress(arg)
    /\ \E i \in ItemsAt(arg.pos) : items[i].callback # None
    /\ ret = FALSE /\ trace = <<>> /\ ~visible

\* C5: while the menu is visible, a primary press goes to the close button
\* first (a hit closes the menu, is handled and runs no item callback), then
\* to the items in list order (a hit is handled, and only the first item hit
\* runs its callback, at most once), then to the menu bounds (a press inside
\* the menu on no item is handled, leaves the menu open and runs nothing).
C5_PressDispatchOrder ==
    [][ (op' = "handle_event" /\ visible /\ IsPrimaryPress(arg')) =>
          LET pos == arg'.pos
              hit == ItemsAt(pos)
          IN  /\ OnCloseButton(pos) =>
                  /\ ret' = TRUE
                  /\ visible' = FALSE
                  /\ trace' = <<CloseEffect>>
              /\ (~OnCloseButton(pos) /\ hit # {}) =>
                  LET k == CHOOSE i \in hit : \A j \in hit : i <= j
                  IN  /\ ret' = TRUE
                      /\ Cardinality(CallsIn(trace')) <= 1
                      /\ \A j \in CallsIn(trace') :
                             /\ j = 1
                             /\ items[k].callback # None
                             /\ trace'[j] = CallEffect(items[k].callback.orig)
                      /\ items[k].callback # None => CallsIn(trace') # {}
              /\ (~OnCloseButton(pos) /\ hit = {} /\ collidepoint(rect, pos)) =>
                  /\ ret' = TRUE
                  /\ visible' = TRUE
                  /\ trace' = <<>> ]_vars

C5_Witness ==
    /\ op = "handle_event" /\ visibleBefore /\ IsPrimaryPress(arg)
    /\ OnCloseButton(arg.pos)
    /\ \E i \in DOMAIN items : items[i].callback # None
    /\ ret /\ ~visible /\ trace = <<CloseEffect>>

\* C6 (as claimed): while the menu is visible, handle_event returns true for
\* a mouse-motion event at any position.
C6_MotionConsumed ==
    (op = "handle_event" /\ visibleBefore /\ arg.type = MOUSEMOTION) =>
        ret = TRUE

ChildrenRigid ==
    /\ \A i \in DOMAIN close_button :
           close_button[i].rect =
               Rect(rect.x + rect.w - close_size - close_inset,
                    rect.y + close_inset, close_size, close_size)
    /\ \A i \in DOMAIN items :
           items[i].rect =
               Rect(rect.x + margin,
                    rect.y + title_height + margin
                        + (i - 1) * (item_height + item_spacing),
                    rect.w - 2 * margin, item_height)

\* C8: set_position(x, y) puts the menu's top-left corner at (x, y); after any
\* sequence of add_item, set_position and center calls the close button and
\* every item sit at the offset from that corner they were created at, and no
\* size has changed.
C8_SetPositionRigid ==
    /\ ChildrenRigid
    /\ [][ /\ ChildrenRigid'
           /\ rect'.w = rect.w /\ rect'.h = rect.h
           /\ op' = "set_position" =>
                  (rect'.x = arg'[1] /\ rect'.y = arg'[2]) ]_vars

C8_Witness ==
    /\ op = "set_position"
    /\ rect.x = 30 /\ rect.y = -10
    /\ close_button # NoCloseButton
    /\ Len(items) >= 2
    /\ items[2].rect.x = 30 + margin

\* C9 (as claimed): after center(width, height) the menu rectangle's centre
\* is (width // 2, height // 2), for every menu size and container size.
C9_CenterExact ==
    op = "center" =>
        (centerx(rect) = arg[1] \div 2 /\ centery(rect) = arg[2] \div 2)

\* How far left of (above) the container's centre the centre of a centred
\* rectangle falls.
OffCentre(container, extent) ==
    IF container % 2 = 0 /\ extent % 2 = 1 THEN 1 ELSE 0

\* C9 (amended): after center(width, height) the menu's top-left corner is
\* ((width - rect.width) // 2, (height - rect.height) // 2); on each axis the
\* centre is the container's centre, except that it is one pixel less when
\* the container's extent is even and the menu's is odd.
C9_CenterRounded ==
    op = "center" =>
        /\ rect.x = (arg[1] - rect.w) \div 2
        /\ rect.y = (arg[2] - rect.h) \div 2
        /\ centerx(rect) = (arg[1] \div 2) - OffCentre(arg[1], rect.w)
        /\ centery(rect) = (arg[2] \div 2) - OffCentre(arg[2], rect.h)

C9_Witness ==
    /\ op = "center"
    /\ arg[1] % 2 = 0 /\ rect.w % 2 = 1
    /\ centerx(rect) = (arg[1] \div 2) - 1
    /\ Len(items) > 0

\* C10: a menu starts invisible; open() makes it visible and close() makes it
\* invisible whatever it was before; toggle() flips the visibility, so two
\* toggles in a row restore it; none of the three changes the items, any
\* rectangle or the configuration flags.
C10_OpenCloseToggle ==
    /\ ~visible
    /\ [][ /\ op' = "open" => visible' = TRUE
           /\ op' = "close" => visible' = FALSE
           /\ op' = "toggle" => visible' = ~visible
           /\ (op = "toggle" /\ op' = "toggle") => visible' = visibleBefore
           /\ op' \in {"open", "close", "toggle"} =>
                  UNCHANGED <<rect, close_button, items, config>> ]_vars

C10_Witness ==
    /\ op = "toggle"
    /\ visibleBefore /\ ~visible
    /\ Len(items) > 0

\* C11: Button.handle_click returns true exactly when the button is enabled
\* and the position is inside its rectangle; on such a hit it runs the click
\* hook once and then the callback, if there is one, once; otherwise it
\* returns false and runs neither.
C11_ButtonClick ==
    [][ op' = "handle_click" =>
          LET inside == button.enabled /\ collidepoint(button.rect, arg')
          IN  /\ ret' = inside
              /\ inside /\ button.callback # None =>
                     trace' = <<OnClickEffect, CallEffect(button.callback.orig)>>
              /\ inside /\ button.callback = None =>
                     trace' = <<OnClickEffect>>
              /\ ~inside => trace' = <<>> ]_vars

\* A hit on an enabled button with a callback: the hook, then the callback.
C11_Witness ==
    /\ op = "handle_click"
    /\ button.enabled
    /\ collidepoint(button.rect, arg)
    /\ ret
    /\ trace = <<OnClickEffect, CallEffect(1)>>

\* The clicks made so far that fell inside the play/pause button.
InsideClicks ==
    { i \in DOMAIN history : collidepoint(play_pause_button.rect, history[i]) }

\* C12: a PlayPauseButton starts paused; a click inside its rectangle flips
\* playing and returns true, so that after n inside-clicks playing is true
\* exactly when n is odd; a click outside returns false and leaves playing
\* unchanged.
C12_PlayPauseToggle ==
    /\ [](history = <<>> => ~play_pause_button.playing)
    /\ [](play_pause_button.playing = (Cardinality(InsideClicks) % 2 = 1))
    /\ [][ op' = "handle_click" =>
             IF collidepoint(play_pause_button.rect, arg')
                 THEN ret' /\ play_pause_button'.playing
                               = ~play_pause_button.playing
                 ELSE ~ret' /\ play_pause_button'.playing
                                = play_pause_button.playing ]_vars

\* Three clicks, all inside, have left the button playing.
C12_Witness ==
    /\ Len(history) = 3
    /\ Cardinality(InsideClicks) = 3
    /\ play_pause_button.playing
    /\ op = "handle_click"
    /\ ret

OnDecrease(pos) == collidepoint(speed_control.decrease_button_rect, pos)

OnIncrease(pos) == collidepoint(speed_control.increase_button_rect, pos)

\* C13: SpeedControl.speed is an integer >= 1 in every state: construction
\* clamps the initial value to at least 1, a click on the decrease button
\* lowers it by 1 but not below 1, a click on the increase button raises it
\* by exactly 1, and a click anywhere else returns false and leaves it.
C13_SpeedAtLeastOne ==
    /\ [](speed_control.speed \in Nat /\ speed_control.speed >= 1)
    /\ [](history = <<>> =>
              speed_control.speed = IF init_args.initial_speed < 1
                                        THEN 1
                                        ELSE init_args.initial_speed)
    /\ [][ op' = "handle_click" =>
             LET old == speed_control.speed
                 new == speed_control'.speed
             IN  /\ OnDecrease(arg') =>
                        ret' /\ new = IF old = 1 THEN 1 ELSE old - 1
                 /\ OnIncrease(arg') => ret' /\ new = old + 1
                 /\ ~OnDecrease(arg') /\ ~OnIncrease(arg') =>
                        ~ret' /\ new = old ]_vars

\* A decrease click at speed 1 that left the speed at 1, on a control that
\* was constructed with an initial speed below 1.
C13_Witness ==
    /\ init_args.initial_speed < 1
    /\ op = "handle_click"
    /\ OnDecrease(arg)
    /\ ret
    /\ speed_control.speed = 1
    /\ Len(history) = 1

\* The control was constructed with the default speed and every click so
\* far was on its increase button.
OnlyIncreases ==
    /\ init_args.initial_speed = default_speed
    /\ \A i \in DOMAIN history : OnIncrease(history[i])

\* C14 as stated: from the default speed of 1, six consecutive clicks on
\* the increase button yield a speed of 6.
C14_SixIncreasesGiveSix ==
    OnlyIncreases /\ Len(history) = 6 => speed_control.speed = 6

\* C14 as amended: from the default speed of 1, n consecutive clicks on the
\* increase button yield 1 + n: five clicks yield 6 and six clicks yield 7.
C14_IncreasesAddUp ==
    OnlyIncreases =>
        /\ speed_control.speed = 1 + Len(history)
        /\ Len(history) = 5 => speed_control.speed = 6
        /\ Len(history) = 6 => speed_control.speed = 7

\* Five increase clicks from the default have been made.
C14_Witness ==
    /\ OnlyIncreases
    /\ Len(history) = 5
    /\ speed_control.speed = 6

\* C15: the temperature of a slider whose initial temperature lies in
\* [min_temp, max_temp] stays within [min_temp, max_temp] after any
\* sequence of handle_click, handle_drag and handle_release calls.
C15_TemperatureInRange ==
    /\ temperature_slider.min_temp <= temperature_slider.temperature
    /\ temperature_slider.temperature <= temperature_slider.max_temp

track == TemperatureSlider_get_track_rect(temperature_slider)

DefaultSlider ==
    /\ before.min_temp = Float(default_min_temp)
    /\ before.max_temp = Float(default_max_temp)
    /\ before.temperature = Float(default_temp)

WithinTwentyOfMax ==
    /\ temperature_slider.temperature >= Float(default_max_temp - 20)
    /\ temperature_slider.temperature <= Float(default_max_temp + 20)

\* C16 as stated: with the default range and the default temperature, a
\* click at x = track.right, y inside the track, yields a temperature
\* within 20 K of 1000.
C16_ClickAtRightEdge ==
    /\ op = "handle_click"
    /\ DefaultSlider
    /\ arg[1] = track.x + track.w
    /\ arg[2] >= track.y
    /\ arg[2] < track.y + track.h
    => WithinTwentyOfMax

\* C16 as amended: with the default range and the default temperature, a
\* click on the last pixel column of the track (x = track.right - 1, y
\* inside the track) of a track at least 50 wide returns true and yields a
\* temperature within 20 K of 1000; a click at x = track.right misses the
\* track, returns false and leaves the temperature as it was.
C16_ClickOnLastColumn ==
    /\ op = "handle_click"
    /\ DefaultSlider
    /\ arg[2] >= track.y
    /\ arg[2] < track.y + track.h
    => /\ arg[1] = track.x + track.w - 1 /\ track.w >= 50 =>
              ret /\ WithinTwentyOfMax
       /\ arg[1] = track.x + track.w =>
              ~ret /\ temperature_slider.temperature = before.temperature

\* The click on the last column of a track 100 wide has been made.
C16_Witness ==
    /\ op = "handle_click"
    /\ DefaultSlider
    /\ track.w >= 50
    /\ arg = <<track.x + track.w - 1, centery(track)>>
    /\ ret
    /\ WithinTwentyOfMax

OnHandle(s, pos) == collidepoint(TemperatureSlider_get_slider_rect(s), pos)

OnTrack(s, pos) == collidepoint(TemperatureSlider_get_track_rect(s), pos)

\* min_temp + clamp((x - track.left) / track.width, 0, 1) * (max_temp -
\* min_temp), in the arithmetic of floats.
TemperatureAt(s, x) ==
    LET along == TemperatureSlider_get_track_rect(s)
        fraction == TrueDiv(x - along.x, along.w)
        clamp == IF fraction < Float(0) THEN Float(0)
                 ELSE IF fraction > Float(1) THEN Float(1)
                 ELSE fraction
    IN  FAdd(s.min_temp, FMul(clamp, FSub(s.max_temp, s.min_temp)))

\* C17: a press on the handle sets the drag flag; a press elsewhere on the
\* track sets the temperature from the position and sets the drag flag; a
\* press on neither returns false and sets nothing; a drag changes the
\* temperature, by the same mapping, only while the drag flag is set; a
\* release clears the drag flag.
C17_PressDragRelease ==
    /\ op = "handle_click" /\ OnHandle(before, arg) =>
           ret /\ temperature_slider.dragging
    /\ op = "handle_click" /\ ~OnHandle(before, arg) /\ OnTrack(before, arg) =>
           /\ ret
           /\ temperature_slider.dragging
           /\ temperature_slider.temperature = TemperatureAt(before, arg[1])
    /\ op = "handle_click" /\ ~OnHandle(before, arg) /\ ~OnTrack(before, arg) =>
           ~ret /\ temperature_slider = before
    /\ op = "handle_drag" /\ before.dragging =>
           temperature_slider.temperature = TemperatureAt(before, arg[1])
    /\ op = "handle_drag" /\ ~before.dragging =>
           temperature_slider = before
    /\ op = "handle_release" => ~temperature_slider.dragging

\* A drag to a position on the track, made while the flag was set, has
\* moved the temperature to a value strictly inside the range.
C17_Witness ==
    /\ op = "handle_drag"
    /\ before.dragging
    /\ OnTrack(before, arg)
    /\ temperature_slider.temperature # before.temperature
    /\ temperature_slider.temperature > temperature_slider.min_temp
    /\ temperature_slider.temperature < temperature_slider.max_temp

OnResetButton(pos) == collidepoint(reset_button.rect, pos)

\* C18: reset_requested is false initially, becomes true on a primary click
\* on the Reset button, and once true stays true across the widget's own
\* update(), handle_event() and set_rect(); it returns to false only when
\* another party assigns it false.
C18_ResetFlagPersists ==
    /\ [](op = "init" => ~reset_requested)
    /\ [][ /\ op' = "handle_event"
           /\ IsPrimaryPress(arg')
           /\ OnResetButton(arg'.pos)
           => reset_requested' ]_vars
    /\ [][ reset_requested /\ op' \in {"handle_event", "update", "set_rect"}
           => reset_requested' ]_vars
    /\ [][ ~reset_requested /\ reset_requested' =>
               /\ op' = "handle_event"
               /\ IsPrimaryPress(arg')
               /\ OnResetButton(arg'.pos) ]_vars

\* The flag is still set after an update() of the widget.
C18_Witness ==
    /\ op = "update"
    /\ reset_requested

\* The rectangles _create_controls lays out in the widget rectangle r:
\* 60 x 60 buttons from a margin of 20, 10 apart, a speed control 200 wide
\* and, below them, a slider 60 high across the widget.
LaidOutIn(r, play, reset, speed, slider) ==
    /\ play.rect = Rect(r.x + 20, r.y + 20, 60, 60)
    /\ reset.rect = Rect(r.x + 90, r.y + 20, 60, 60)
    /\ speed.rect = Rect(r.x + 160, r.y + 20, 200, 60)
    /\ speed.decrease_button_rect = Rect(r.x + 160, r.y + 20, 60, 60)
    /\ speed.text_rect = Rect(r.x + 220, r.y + 20, 80, 60)
    /\ speed.increase_button_rect = Rect(r.x + 300, r.y + 20, 60, 60)
    /\ slider.rect = Rect(r.x + 20, r.y + 90, r.w - 40, 60)

\* C19: set_rect is a layout-only change: playing, speed and temperature
\* are the same after it as before it, the widget rectangle is the new one
\* and every sub-control rectangle is laid out in it.
C19_SetRectKeepsState ==
    [][ op' = "set_rect" =>
          /\ play_pause_button'.playing = play_pause_button.playing
          /\ speed_control'.speed = speed_control.speed
          /\ temperature_slider'.temperature = temperature_slider.temperature
          /\ controls_rect' = arg'
          /\ LaidOutIn(arg', play_pause_button', reset_button',
                       speed_control', temperature_slider') ]_vars

\* set_rect has been called on a widget that is playing, at a speed and a
\* temperature that are not the defaults.
C19_Witness ==
    /\ op = "set_rect"
    /\ controls_rect = Rect(0, 0, 600, 300)
    /\ LaidOutIn(controls_rect, play_pause_button, reset_button,
                 speed_control, temperature_slider)
    /\ play_pause_button.playing
    /\ speed_control.speed = 2
    /\ temperature_slider.temperature = Float(500)

ResetsIn(t) == { i \in DOMAIN t : t[i] = ResetEffect }

\* C20: in the application's per-frame update, if reset_requested is set
\* the simulation widget is reset exactly once and the flag is cleared, so
\* that the flag is false whenever update returns; if it is not set, no
\* reset is performed.
C20_UpdateConsumesReset ==
    [][ op' = "app_update" =>
          /\ reset_requested =>
                 Cardinality(ResetsIn(trace')) = 1 /\ ~reset_requested'
          /\ ~reset_requested => ResetsIn(trace') = {}
          /\ ~ret' => ~reset_requested' ]_vars

(***************************************************************************)
(* The application shell: the per-frame update, the simulation widget's    *)
(* update, the loop of run(), event dispatch and the layout.               *)
(***************************************************************************)
Did(t, e) == \E i \in DOMAIN t : t[i] = e

\* C21: after every per-frame update the engine's target temperature equals
\* the controls widget's temperature, also in a frame in which a reset was
\* requested, and the engine's timestep still has its construction value
\* 1.0.
C21_OnlyTemperatureCopied ==
    [][ op' = "update" =>
          /\ simulation_widget'.engine.temperature =
                 ControlsWidget_temperature(widget')
          /\ simulation_widget'.engine.timestep = Float(engine_timestep)
      ]_vars

\* The integration steps the last operation advanced the engine by.
StepsRun == simulation_widget'.engine.steps - simulation_widget.engine.steps

\* C22: SimulationWidget.update(playing, steps_per_frame) advances the
\* engine by steps_per_frame steps when playing (1 when steps_per_frame is
\* not given) and by none when not playing, unless the engine raised; and
\* the application's update calls it.
C22_UpdateAdvances ==
    [][ /\ (op' = "simulation_widget.update" /\ ~Did(trace', ErrorLogged)) =>
               StepsRun = IF ~arg'[1] THEN 0
                          ELSE IF Len(arg') = 2 THEN arg'[2]
                          ELSE 1
        /\ op' = "update" => Did(trace', UpdateEffect)
      ]_vars

\* The engine's run was called by the last operation and did not complete.
RunRaised == Did(trace', RunEffect(1)) /\ StepsRun = 0

C24_LoopPhases ==
    /\ pc = "idle" => ~app.running
    /\ [][ /\ (pc \in RunPhases /\ pc' # pc) =>
                  \/ pc = "handle_events" /\ pc' = "update"
                  \/ pc = "update" /\ pc' = "render"
                  \/ pc = "render" /\ pc' = "tick"
                  \/ pc = "tick" /\ app.running /\ pc' = "handle_events"
                  \/ pc = "tick" /\ ~app.running /\ pc' = "quit"
                  \/ pc = "quit" /\ pc' = "returned"
           /\ (~app.running /\ app'.running) => op' = "run"
           /\ (app.running /\ ~app'.running) =>
                  op' = "handle_events" /\ arg'.type = QUIT
         ]_vars

\* Half of n, rounded towards zero.
HalfTowardsZero(n) == Sign(n) * (Abs(n) \div 2)

\* Twice the side min(W/2, H - 2*margin) of the simulation square.
TwiceSide(W, H) == Min(W, 2 * (H - 2 * layout_margin))

\* The layout for a W by H window, each number rounded towards zero:
\* <<simulation, periodic table, controls>>.
LayoutFor(W, H) ==
    LET m == layout_margin
        s2 == TwiceSide(W, H)
    IN  << Rect(m, m, HalfTowardsZero(s2), HalfTowardsZero(s2)),
           Rect(HalfTowardsZero(s2 + 4 * m), m,
                HalfTowardsZero(2 * W - s2 - 6 * m), HalfTowardsZero(H)),
           Rect(HalfTowardsZero(s2 + 4 * m), HalfTowardsZero(H + 4 * m),
                HalfTowardsZero(2 * W - s2 - 6 * m),
                HalfTowardsZero(H - 6 * m)) >>

\* C25: each event handle_events pulls, a quit or resize event included, is
\* passed to the simulation widget, the periodic table widget and the
\* controls widget, in this order; a resize event has by then been stored
\* as the window size and laid out, so that each widget is called with its
\* new rectangle.
C25_DispatchOrder ==
    [][ op' = "handle_events" =>
          /\ trace' = << Forwarded("simulation_widget", arg',
                                   simulation_widget'.rect),
                         Forwarded("periodic_table_widget", arg',
                                   app'.PERIODIC_TABLE_RECT),
                         Forwarded("controls_widget", arg', controls_rect') >>
          /\ arg'.type = VIDEORESIZE =>
                 /\ app'.WINDOW_WIDTH = arg'.w
                 /\ app'.WINDOW_HEIGHT = arg'.h
                 /\ << simulation_widget'.rect, app'.PERIODIC_TABLE_RECT,
                       controls_rect' >> = LayoutFor(arg'.w, arg'.h)
          /\ arg'.type # VIDEORESIZE =>
                 /\ simulation_widget'.rect = simulation_widget.rect
                 /\ app'.PERIODIC_TABLE_RECT = app.PERIODIC_TABLE_RECT
                 /\ controls_rect' = controls_rect
      ]_vars

C25_Witness ==
    /\ op = "handle_events"
    /\ arg = [type |-> VIDEORESIZE, w |-> 601, h |-> 401]
    /\ Len(trace) = 3
    /\ trace[3] = Forwarded("controls_widget", arg, Rect(400, 300, 150, 50))

\* C26 as stated: the rectangles are (margin, margin, s, s),
\* (s + 2 margin, margin, W - s - 3 margin, H/2) and
\* (s + 2 margin, H/2 + 2 margin, W - s - 3 margin, H/2 - 3 margin) exactly,
\* with s = min(W/2, H - 2 margin).
C26_LayoutExact ==
    LET W == app.WINDOW_WIDTH
        H == app.WINDOW_HEIGHT
        m == layout_margin
        s2 == TwiceSide(W, H)
        sim == simulation_widget.rect
        table == app.PERIODIC_TABLE_RECT
    IN  /\ <<sim.x, sim.y, 2 * sim.w, 2 * sim.h>> = <<m, m, s2, s2>>
        /\ <<2 * table.x, table.y, 2 * table.w, 2 * table.h>> =
               <<s2 + 4 * m, m, 2 * W - s2 - 6 * m, H>>
        /\ << 2 * controls_rect.x, 2 * controls_rect.y, 2 * controls_rect.w,
              2 * controls_rect.h >> =
               <<s2 + 4 * m, H + 4 * m, 2 * W - s2 - 6 * m, H - 6 * m>>

\* C26, amended: after construction and after every resize event the three
\* rectangles are those numbers rounded towards zero to integers; they are
\* a function of the window width and height alone.
C26_LayoutTruncated ==
    /\ << simulation_widget.rect, app.PERIODIC_TABLE_RECT,
          controls_rect >> = LayoutFor(app.WINDOW_WIDTH, app.WINDOW_HEIGHT)
    /\ << app.SIMULATION_RECT, app.PERIODIC_TABLE_RECT, app.CONTROLS_RECT >> =
           LayoutFor(app.WINDOW_WIDTH, app.WINDOW_HEIGHT)

C26_Witness ==
    /\ op = "handle_events"
    /\ arg = [type |-> VIDEORESIZE, w |-> 200, h |-> 121]
    /\ simulation_widget.rect = Rect(50, 50, 21, 21)
    /\ app.PERIODIC_TABLE_RECT = Rect(121, 50, 29, 60)
    /\ controls_rect = Rect(121, 160, 29, -89)

(***************************************************************************)
(* The preset registry and the PresetsMenu, under PresetsSpec.             *)
(***************************************************************************)
Elements(seq) == { seq[i] : i \in DOMAIN seq }

RequiredKeys == { "water", "diamond", "gold", "graphene", "nacl", "copper" }

\* Three equal, non-zero edges along orthogonal axes.
Cubic(atoms) ==
    /\ atoms.cell[1] > 0
    /\ atoms.cell[1] = atoms.cell[2]
    /\ atoms.cell[2] = atoms.cell[3]

\* C27: get_preset_names returns a non-empty list, the keys of the catalog
\* in the catalog's order, with water, diamond, gold, graphene, nacl and
\* copper among them; create_preset of any identifier of that list returns,
\* without raising, atoms that are not empty, in a cubic cell, periodic on
\* all three axes.
C27_CatalogCreates ==
    /\ op = "get_preset_names" =>
           /\ ret.raised = NoException
           /\ ret.value # <<>>
           /\ Len(ret.value) = Len(PRESETS)
           /\ \A i \in DOMAIN PRESETS : ret.value[i] = PRESETS[i].id
           /\ RequiredKeys \subseteq Elements(ret.value)
    /\ (op = "create_preset" /\ arg[1] \in Elements(get_preset_names)) =>
           /\ ret.raised = NoException
           /\ ret.value.natoms > 0
           /\ Cubic(ret.value)
           /\ ret.value.pbc = <<TRUE, TRUE, TRUE>>

\* A water molecule of non-zero extent was created in its 5 Angstrom box.
C27_Witness ==
    /\ op = "create_preset"
    /\ arg = <<"water", <<0, 1526, 596>>>>
    /\ ret.raised = NoException
    /\ ret.value.natoms = 3
    /\ ret.value.cell = <<11526, 11526, 11526>>
    /\ ret.value.pbc = <<TRUE, TRUE, TRUE>>

\* C28: for an identifier that is not a key of the catalog,
\* get_preset_display_name returns the identifier itself without raising and
\* create_preset raises ValueError, calls no generator and leaves the catalog
\* as it was; for a key of the catalog, get_preset_display_name returns the
\* entry's name and create_preset calls that entry's generator and no other.
C28_UnknownPreset ==
    [][ /\ op' = "get_preset_display_name" =>
               /\ ret'.raised = NoException
               /\ calls' = <<>>
               /\ PRESETS' = PRESETS
               /\ \A i \in DOMAIN PRESETS :
                      PRESETS[i].id = arg'[1] => ret'.value = PRESETS[i].name
               /\ arg'[1] \notin Elements(get_preset_names) =>
                      ret'.value = arg'[1]
        /\ op' = "create_preset" =>
               /\ PRESETS' = PRESETS
               /\ \A i \in DOMAIN PRESETS :
                      PRESETS[i].id = arg'[1] =>
                          calls' = <<GeneratorCall(PRESETS[i].creator)>>
               /\ arg'[1] \notin Elements(get_preset_names) =>
                      /\ ret'.raised = "ValueError"
                      /\ calls' = <<>> ]_vars

\* create_preset was asked for an identifier the catalog has no key for.
C28_Witness ==
    /\ op = "create_preset"
    /\ arg[1] = "ethane"
    /\ ret.raised = "ValueError"
    /\ calls = <<>>

\* The primary press ev lands on the i-th item of the menu.
PressOnItem(ev, i) ==
    /\ ev.type = MOUSEBUTTONDOWN
    /\ ev.button = 1
    /\ collidepoint(items[i].rect, ev.pos)

\* C29: a PresetsMenu holds one item for each preset of the catalog, in the
\* catalog's order, labelled with the preset's display name; a primary press
\* on the i-th item of a visible menu calls the load-callback that was
\* supplied once, with the i-th preset's identifier, makes no other call, and
\* leaves the menu closed.
C29_PresetItemLoads ==
    /\ [](/\ Len(items) = Len(PRESETS)
          /\ \A i \in DOMAIN items : items[i].text = PRESETS[i].name)
    /\ [][ \A i \in DOMAIN items :
               (visible /\ op' = "handle_event" /\ PressOnItem(arg', i)) =>
                   /\ calls' = IF load_callback # None
                                   THEN <<LoadCall(PRESETS[i].id)>>
                                   ELSE <<>>
                   /\ trace' = <<CallEffect(i), CloseEffect>>
                   /\ ~visible' ]_vars

\* The ninth item of a visible menu was pressed: graphene was loaded, not
\* copper, and the menu closed.
C29_Witness ==
    /\ op = "handle_event"
    /\ visibleBefore
    /\ ~visible
    /\ load_callback # None
    /\ calls = <<LoadCall("graphene")>>
    /\ trace = <<CallEffect(9), CloseEffect>>

(***************************************************************************)
(* The MainMenu, under MainMenuSpec.                                       *)
(***************************************************************************)
Labels == [i \in DOMAIN items |-> items[i].text]

ThirdPartyShown == init_args.frozen \/ init_args.force_show_third_party

\* C30: the items of a MainMenu are About, Website, Copyright, then Third
\* Party Information exactly when the build is frozen or the item was forced
\* at construction, then Exit; auto_close_on_select is false, and a primary
\* press on any item of a visible menu leaves the menu visible; a press on
\* Exit calls the exit-callback that was supplied once and makes no other
\* call; a press on About or Copyright leaves that text box open.
C30_MainMenuStaysOpen ==
    /\ [](/\ Labels = IF ThirdPartyShown
                          THEN <<"About", "Website", "Copyright",
                                 "Third Party Information", "Exit">>
                          ELSE <<"About", "Website", "Copyright", "Exit">>
          /\ ~auto_close_on_select)
    /\ [][ \A i \in DOMAIN items :
               (visible /\ op' = "handle_event" /\ PressOnItem(arg', i)) =>
                   /\ visible'
                   /\ Labels[i] = "Exit" =>
                          calls' = IF exit_callback # None
                                       THEN <<ExitCall>>
                                       ELSE <<>>
                   /\ Labels[i] = "About" =>
                          /\ about_textbox'.visible
                          /\ copyright_textbox' = copyright_textbox
                   /\ Labels[i] = "Copyright" =>
                          /\ copyright_textbox'.visible
                          /\ about_textbox' = about_textbox ]_vars

\* Exit, the fifth item of a menu that shows Third Party Information, was
\* pressed: the exit-callback ran and the menu is still open.
C30_Witness ==
    /\ op = "handle_event"
    /\ Len(items) = 5
    /\ PressOnItem(arg, 5)
    /\ visibleBefore
    /\ visible
    /\ calls = <<ExitCall>>
    /\ about_textbox.visible

(***************************************************************************)
(* The engine of a SimulationWidget, under EngineSpec.                     *)
(***************************************************************************)
engine == simulation_widget.engine

\* C31: after any sequence of add_atom calls and assignments to
\* engine.atoms, the calculator bound to the engine's atomic system is the
\* engine's own calculator, and the system holds as many atoms as the
\* system last assigned held plus the atoms added since.
C31_CalculatorBound ==
    /\ engine.atoms.calc = engine.calculator
    /\ Len(engine.atoms.symbols) = history.assigned + history.added
    /\ Len(engine.atoms.positions) = Len(engine.atoms.symbols)

\* An atom was added to a system that was assigned with another calculator
\* bound to it.
C31_Witness ==
    /\ op = "add_atom"
    /\ history = [assigned |-> 1, added |-> 1]
    /\ engine.atoms.symbols = <<"O", "H">>
    /\ engine.atoms.cell = <<0, 0, 0>>
    /\ engine.atoms.calc = calculator

\* C32: construction and reset() both leave the engine in the default
\* configuration: a 10 Angstrom cubic cell, timestep 1.0, temperature 300.0
\* and two hydrogen atoms at (4.5, 5, 5) and (5.5, 5, 5), no step run;
\* reset() reaches it from any state and does not raise.
C32_ResetRestoresDefault ==
    [][ op' = "reset" =>
            /\ ~ret'
            /\ simulation_widget'.engine =
                   [calculator |-> calculator,
                    timestep |-> Float(1),
                    temperature |-> Float(300),
                    cell_size |-> 10000,
                    steps |-> 0,
                    atoms |-> [symbols |-> <<"H", "H">>,
                               positions |-> << <<4500, 5000, 5000>>,
                                                <<5500, 5000, 5000>> >>,
                               cell |-> <<10000, 10000, 10000>>,
                               pbc |-> <<TRUE, TRUE, TRUE>>,
                               calc |-> calculator]] ]_vars

\* C33: the atoms create_preset returns for water are centred in their
\* cell: the cell is cubic with an edge of the molecule's largest extent
\* plus 10 Angstrom and periodic on all axes, the bounding box of the
\* positions has the cell's centre as its centre, and so every coordinate
\* lies in [0, edge].
C33_WaterCentred ==
    (op = "create_preset" /\ arg[1] = "water") =>
        LET edge == Max3(arg[2]) + 10000
            lo == ret.value.box[1]
            hi == ret.value.box[2]
        IN  /\ ret.value.cell = <<edge, edge, edge>>
            /\ ret.value.pbc = <<TRUE, TRUE, TRUE>>
            /\ \A i \in 1..3 :
                   /\ lo[i] + hi[i] = edge
                   /\ 0 <= lo[i]
                   /\ hi[i] <= edge

(***************************************************************************)
(* A ToggleButton on its own, under ToggleSpec.                            *)
(***************************************************************************)
\* C34: the selected flag of a ToggleButton is flipped by every click that
\* hits its rectangle while it is enabled, so that after n such clicks it
\* differs from the value it was constructed with exactly when n is odd; a
\* click that misses, or comes while the button is disabled, leaves it as
\* it was and runs nothing; the callback, if there is one, runs after the
\* flip.
C34_ToggleFlips ==
    /\ [](button.selected # init_args.selected <=> history % 2 = 1)
    /\ [][ op' = "handle_click" =>
               IF button.enabled /\ collidepoint(button.rect, arg')
                   THEN /\ button'.selected = ~button.selected
                        /\ ret'
                        /\ trace' =
                               <<SelectedEffect(~button.selected)>> \o
                               (IF button.callback # None
                                    THEN <<CallEffect(button.callback.orig)>>
                                    ELSE <<>>)
                   ELSE /\ button'.selected = button.selected
                        /\ ~ret'
                        /\ trace' = <<>> ]_vars

\* A button constructed unselected was hit three times: it is selected, and
\* its callback ran after the third flip.
C34_Witness ==
    /\ op = "handle_click"
    /\ history = 3
    /\ ~init_args.selected
    /\ button.selected
    /\ trace = <<SelectedEffect(TRUE), CallEffect(1)>>

(***************************************************************************)
(* More of the ControlsWidget, under ControlsSpec.                         *)
(***************************************************************************)
\* The rectangles a and b have a point in common.
Overlap(a, b) ==
    /\ a.w > 0 /\ a.h > 0 /\ b.w > 0 /\ b.h > 0
    /\ a.x < b.x + b.w /\ b.x < a.x + a.w
    /\ a.y < b.y + b.h /\ b.y < a.y + a.h

\* The rectangles a press is tested against: the four buttons, then the
\* two of the slider.
ButtonRegions ==
    << play_pause_button.rect, reset_button.rect,
       speed_control.decrease_button_rect,
       speed_control.increase_button_rect >>

SliderRegions ==
    << TemperatureSlider_get_slider_rect(temperature_slider),
       TemperatureSlider_get_track_rect(temperature_slider) >>

\* The groups of state the last operation changed.
ChangedGroups ==
    { g \in { "playing", "reset_requested", "speed", "slider" } :
        \/ g = "playing" /\ play_pause_button'.playing # play_pause_button.playing
        \/ g = "reset_requested" /\ reset_requested' # reset_requested
        \/ g = "speed" /\ speed_control'.speed # speed_control.speed
        \/ g = "slider" /\
               << temperature_slider'.temperature,
                  temperature_slider'.dragging >> #
               << temperature_slider.temperature,
                  temperature_slider.dragging >> }

\* C35: the rectangles of the play/pause, reset, decrease and increase
\* buttons are pairwise disjoint and disjoint from the slider's handle and
\* track, and a primary press, though offered to every control, changes at
\* most one of playing, reset_requested, speed and the slider's state.
C35_OnePressOneControl ==
    /\ [](/\ \A i, j \in 1..4 :
                i # j => ~Overlap(ButtonRegions[i], ButtonRegions[j])
          /\ \A i \in 1..4, k \in 1..2 :
                ~Overlap(ButtonRegions[i], SliderRegions[k]))
    /\ [][ (/\ op' = "handle_event"
            /\ arg'.type = MOUSEBUTTONDOWN
            /\ arg'.button = 1) => Cardinality(ChangedGroups) <= 1 ]_vars

\* A press on the reset button set the flag of a widget that is paused, at
\* speed 1 and not dragged.
C35_Witness ==
    /\ op = "handle_event"
    /\ arg = [type |-> MOUSEBUTTONDOWN, button |-> 1, pos |-> <<120, 50>>]
    /\ reset_requested
    /\ ~play_pause_button.playing
    /\ speed_control.speed = 1
    /\ ~temperature_slider.dragging


HoverFlags(play, reset, speed, slider) ==
    { play.hovered, reset.hovered, speed.decrease_hovered,
      speed.increase_hovered, slider.hovered }

OnSlider(s, pos) == OnHandle(s, pos) \/ OnTrack(s, pos)

\* C36: a set_rect made while a temperature drag is in progress ends the
\* drag: after it the slider's drag flag and every hover flag are false and
\* reset_requested is what it was; while the drag flag is false a motion
\* event leaves the temperature alone, and the flag is set again only by a
\* primary press on the slider's handle or track.
C36_SetRectEndsDrag ==
    /\ [][ op' = "set_rect" =>
              /\ ~temperature_slider'.dragging
              /\ HoverFlags(play_pause_button', reset_button', speed_control',
                            temperature_slider') = {FALSE}
              /\ reset_requested' = reset_requested ]_vars
    /\ [][ /\ op' = "handle_event"
           /\ arg'.type = MOUSEMOTION
           /\ ~temperature_slider.dragging
           => temperature_slider'.temperature =
                  temperature_slider.temperature ]_vars
    /\ [][ ~temperature_slider.dragging /\ temperature_slider'.dragging =>
              /\ op' = "handle_event"
              /\ IsPrimaryPress(arg')
              /\ OnSlider(temperature_slider, arg'.pos) ]_vars

\* set_rect has been called on a widget whose slider was being dragged and
\* whose reset was requested; the drag flag is now false.
C36_Witness ==
    /\ op = "set_rect"
    /\ before = "dragging"
    /\ ~temperature_slider.dragging
    /\ reset_requested

(***************************************************************************)
(* The layout of the window, under LayoutSpec.                             *)
(***************************************************************************)
\* The rectangle a lies inside the rectangle b.
Inside(a, b) ==
    /\ b.x <= a.x /\ a.x + a.w <= b.x + b.w
    /\ b.y <= a.y /\ a.y + a.h <= b.y + b.h

Positive(r) == r.w > 0 /\ r.h > 0

\* The rectangles of the simulation, the periodic table and the controls.
LayoutRects ==
    << app.SIMULATION_RECT, app.PERIODIC_TABLE_RECT, app.CONTROLS_RECT >>

\* C37: at every window size at which the three rectangles of the layout
\* have a positive width and height they are pairwise disjoint and inside
\* the window, and the widgets have them; at 1400 x 800 they are the
\* class's initial constants.
C37_LayoutDisjoint ==
    LET window == Rect(0, 0, app.WINDOW_WIDTH, app.WINDOW_HEIGHT)
    IN  /\ (\A i \in 1..3 : Positive(LayoutRects[i])) =>
               /\ \A i, j \in 1..3 :
                      i # j => ~Overlap(LayoutRects[i], LayoutRects[j])
               /\ \A i \in 1..3 : Inside(LayoutRects[i], window)
               /\ << simulation_widget.rect, controls_rect >> =
                      << LayoutRects[1], LayoutRects[3] >>
        /\ (app.WINDOW_WIDTH = 1400 /\ app.WINDOW_HEIGHT = 800) =>
               LayoutRects = << Rect(50, 50, 700, 700), Rect(800, 50, 550, 400),
                                Rect(800, 500, 550, 250) >>

\* The window has been resized to 601 x 401: the three rectangles are
\* positive, and those of the periodic table and the controls are 50 apart.
C37_Witness ==
    /\ op = "handle_events"
    /\ arg = [type |-> VIDEORESIZE, w |-> 601, h |-> 401]
    /\ \A i \in 1..3 : Positive(LayoutRects[i])
    /\ LayoutRects = << Rect(50, 50, 300, 300), Rect(400, 50, 150, 200),
                        Rect(400, 300, 150, 50) >>

(***************************************************************************)
(* More of the Menu, under Spec.                                           *)
(***************************************************************************)
\* C38: in a menu with auto-close-on-select, add_item stores a missing
\* callback as it is, without a wrapper; a primary press on such an item
\* while the menu is visible is reported as handled, leaves the menu
\* visible and runs nothing.
C38_NoCallbackNotWrapped ==
    /\ [][ (op' = "add_item" /\ auto_close_on_select /\ arg'[1] = None) =>
              items'[Len(items')].callback = None ]_vars
    /\ [][ ( /\ op' = "handle_event" /\ visible /\ IsPrimaryPress(arg')
             /\ auto_close_on_select ) =>
              \A i \in ItemsAt(arg'.pos) :
                  items[i].callback = None =>
                      /\ ret' = TRUE
                      /\ visible'
                      /\ trace' = <<>> ]_vars

\* An item without a callback has been pressed in a visible menu with
\* auto-close-on-select: the press is handled and the menu is still visible.
C38_Witness ==
    /\ op = "handle_event" /\ visibleBefore /\ IsPrimaryPress(arg)
    /\ auto_close_on_select
    /\ \E i \in ItemsAt(arg.pos) : items[i].callback = None
    /\ ret /\ visible /\ trace = <<>>

(***************************************************************************)
(* More of the application, under AppSpec.                                 *)
(***************************************************************************)
\* C39: while a reset is requested, by one press on the Reset button or by
\* several, the next update resets the simulation exactly once and leaves
\* nothing requested, so that the updates after it reset nothing until the
\* button is pressed again; a press on the Reset button changes none of
\* playing, speed and temperature.
C39_ResetsCoalesce ==
    [][ /\ (op' = "update" /\ reset_requested) =>
               Cardinality(ResetsIn(trace')) = 1 /\ ~reset_requested'
        /\ (op' = "update" /\ ~reset_requested) => ResetsIn(trace') = {}
        /\ ( /\ op' = "handle_events"
             /\ IsPrimaryPress(arg')
             /\ OnResetButton(arg'.pos) ) =>
               /\ reset_requested'
               /\ ControlsWidget_playing(widget') =
                      ControlsWidget_playing(widget)
               /\ ControlsWidget_speed(widget') = ControlsWidget_speed(widget)
               /\ ControlsWidget_temperature(widget') =
                      ControlsWidget_temperature(widget)
      ]_vars

\* The widgets the event of the last pass of handle_events was offered to.
OfferedTo == { trace[i][1] : i \in DOMAIN trace }

\* C40: in run(), once a quit event has cleared running, the events that
\* follow it in the batch are still offered to the three widgets, a resize
\* among them still lays the window out, and no event sets running again;
\* update and render of that pass still run, and after the pace the loop
\* ends with quit() instead of another pass.
C40_QuitFinishesFrame ==
    [][ (pc \in RunPhases /\ ~app.running) =>
          /\ op' = "handle_events" =>
                 /\ OfferedTo' = { "simulation_widget",
                                   "periodic_table_widget",
                                   "controls_widget" }
                 /\ ~app'.running
                 /\ arg'.type = VIDEORESIZE =>
                        << simulation_widget'.rect, app'.PERIODIC_TABLE_RECT,
                           controls_rect' >> = LayoutFor(arg'.w, arg'.h)
          /\ pc = "handle_events" => pc' \in {"handle_events", "update"}
          /\ pc = "update" => op' = "update" /\ pc' = "render"
          /\ pc = "render" => op' = "render" /\ pc' = "tick"
          /\ pc = "tick" => pc' = "quit"
      ]_vars
====
